---- MODULE Spec2Model ----
(***************************************************************************)
(* Model of the incremental backup worker of graph_service                 *)
(* (server/graph_service/backup/backup_worker.py) together with the part   *)
(* of the S3 adapter it uploads through (backup/s3_service.py).            *)
(*                                                                         *)
(* The worker runs on one asyncio event loop: code between two awaits is   *)
(* atomic, so every action below is the code from one suspension point to  *)
(* the next.                                                               *)
(***************************************************************************)
EXTENDS Integers, Sequences, FiniteSets, TLC

\* ---------------------------------------------------------------- bounds
MaxEvents == 2      \* track_change calls in one behaviour
MaxTime   == 1      \* the clock runs over 0..MaxTime
MaxStarts == 2      \* start() calls that create the tasks
MaxForce  == 1      \* force_sync() calls in one behaviour
MaxStops  == 1      \* stop() calls in one behaviour
MaxRestores == 2    \* restore_from_backup calls in one behaviour
MaxNodeId == 3      \* the graph database assigns node ids in 0..MaxNodeId
MaxExports == 2     \* export_all_data calls of one exporter
MaxTokenLen == 9    \* an OAuth token has 0..MaxTokenLen characters

\* ------------------------------------------------------- program values
NoneTime == -1      \* Optional[datetime] = None
NoTask   == 0       \* Optional[asyncio.Task] = None
QueueMaxsize == 0   \* asyncio.Queue(): maxsize 0, no limit

\* ChangeType(str, Enum): the enum's values
ChangeType == {"create", "update", "delete"}

\* the arguments the modelled callers pass to track_change:
\* <<change_type, entity_type, entity_id>>; an entity type is the sequence of
\* its "_"-separated words
TrackInputs ==
    { <<"create", <<"episode">>, "ep-1">>,
      <<"delete", <<"node">>,    "n-1">> }

TaskIds  == 1..MaxStarts
ForceIds == 1..MaxForce
StopIds  == 1..MaxStops

\* the coroutines that run _sync_changes: the _sync_loop tasks, the
\* force_sync() calls and the stop() calls (final sync)
Cyclers == ({"sync"} \X TaskIds) \cup ({"force"} \X ForceIds)
              \cup ({"stop"} \X StopIds)

VARIABLES
    \* BackupWorker fields
    enable_full_backup,     \* constructor argument
    change_queue,           \* asyncio.Queue[DataChange], unbounded
    pending_changes,        \* List[DataChange]
    last_sync_time,
    last_full_backup_time,
    total_changes_synced,
    is_running,
    sync_task,              \* id of the task object held, or NoTask
    full_backup_task,
    \* the coroutines
    syncLoop,               \* task id -> state of a _sync_loop task
    fullLoop,               \* task id -> state of a _full_backup_loop task
    forceCall,              \* caller id -> state of a force_sync() call
    stopCall,               \* caller id -> state of a stop() call
    inflight,               \* cycler -> the upload it awaits in _sync_changes
    \* environment
    s3_objects,             \* the bucket: key -> stored object
    now,                    \* datetime.now(timezone.utc)
    \* history
    log,                    \* every DataChange made by track_change, in order
    delivered,              \* seq numbers of the events stored in the bucket
    failed_batch,           \* batch of the last failed upload, no success since
    last_ok,                \* the last incremental upload that succeeded
    drained_at,             \* Len(log) when the queue was last drained
    noop_start,             \* a start() call found the worker running
    hist,                   \* the last cycle that ended: << outcome, task >>
    \* the backup router's delete path
    admin_reply,            \* the last answer of the backup router
    deletion_keys,          \* the keys save_deletion_backup returned
    \* the graph database and the restore service
    graph_nodes,            \* node id -> node
    graph_edges,            \* the relationships
    restore,                \* the restore_from_backup call in progress
    restore_count,          \* restore calls begun so far
    \* the relational database and _restore_postgres
    users,                  \* the users table: id -> row
    pg,                     \* the _restore_postgres call in progress
    \* restore_from_backup as a whole, initialize_from_latest_backup
    call,
    \* the exporters and what the relational database holds for them
    tables,                 \* the tables of the schema
    oauth_accounts,         \* the rows of oauth_accounts
    exporter,               \* exporter -> its connection and its export
    \* upload_backup and download_backup of one payload
    codec

cycleVars == << change_queue, pending_changes, last_sync_time,
                total_changes_synced, s3_objects, inflight, delivered,
                failed_batch, last_ok, drained_at >>

\* what the worker never touches
adminVars == << admin_reply, deletion_keys >>

restoreVars == << graph_nodes, graph_edges, restore, restore_count >>

relVars == << users, pg >>

exportVars == << tables, oauth_accounts, exporter >>

\* what the router's delete path and the graph restore never touch
moreVars == << relVars, call, exportVars, codec >>

serviceVars == << adminVars, restoreVars, moreVars >>

vars == << enable_full_backup, last_full_backup_time, is_running, sync_task,
           full_backup_task, syncLoop, fullLoop, forceCall, stopCall, now,
           log, noop_start, hist, cycleVars, serviceVars >>

\* ------------------------------------------------------------- helpers
Seqs(s) == { s[i].seq : i \in 1..Len(s) }

\* DataChange(...): timestamp from the default factory; seq is the identity
\* of the object (its arrival number)
DataChange(n, t, in) ==
    [ seq |-> n, timestamp |-> t, change_type |-> in[1],
      entity_type |-> in[2], entity_id |-> in[3] ]

\* datetime.isoformat()
Isoformat(t) == << "iso", t >>

\* x.isoformat() if x else None
IsoOrNone(t) == IF t = NoneTime THEN << >> ELSE Isoformat(t)

\* f"{change.entity_type}_{change.change_type.value}"
GroupKey(c) == c.entity_type \o << "_", c.change_type >>

GroupEntry(c) ==
    [ id |-> c.entity_id, timestamp |-> Isoformat(c.timestamp) ]

\* a grouping loop that puts each entry in front of the group's list
RECURSIVE MapEntries_Prepends(_)
MapEntries_Prepends(cs) ==
    IF cs = <<>> THEN <<>>
    ELSE MapEntries_Prepends(Tail(cs)) \o << GroupEntry(Head(cs)) >>

\* for change in changes: grouped[key]['entities'].append({...})
RECURSIVE MapEntries(_)
MapEntries(cs) ==
    IF cs = <<>> THEN <<>>
    ELSE << GroupEntry(Head(cs)) >> \o MapEntries(Tail(cs))

\* a grouping that assigns the entry instead of appending it
GroupChanges_LastWins(changes) ==
    [ k \in { GroupKey(changes[i]) : i \in 1..Len(changes) } |->
        [ entities |->
            LET es == MapEntries(SelectSeq(changes, LAMBDA c : GroupKey(c) = k))
            IN  << es[Len(es)] >> ] ]

\* _group_changes: key -> {'entities': [entry, ...]} in list order
GroupChanges(changes) ==
    [ k \in { GroupKey(changes[i]) : i \in 1..Len(changes) } |->
        [ entities |->
            MapEntries(SelectSeq(changes, LAMBDA c : GroupKey(c) = k)) ] ]

\* a drain that replaces the pending list by the queue's content
Drain_ReplacesPending(pending, queue) == queue

\* the drain loop of _sync_changes: get_nowait/append until the queue is
\* empty; the result is the pending list after the loop
Drain(pending, queue) == pending \o queue

\* backup_data of _sync_changes
IncrementalData(pending, lastSync, t) ==
    [ backup_type  |-> "incremental",
      start_time   |-> IsoOrNone(lastSync),
      end_time     |-> Isoformat(t),
      change_count |-> Len(pending),
      changes      |-> GroupChanges(pending) ]

\* timestamp.strftime('%Y%m%d_%H%M%S'): the text of a clock value, one
\* token per second of the clock
Strftime(t) == << "T0", "T1", "T2", "T3", "T4" >>[t + 1]

\* f'{self.prefix}/{backup_type}/{timestamp_str}_backup.json.gz'; a key is
\* the sequence of the tokens of its text
BackupKey(backup_type, t) ==
    << "prefix", "/", backup_type, "/", Strftime(t), "_", "backup.json.gz" >>

\* what upload_backup has prepared when it reaches put_object; events and
\* the fields after it are history kept with the upload
Upload(backup_type, data, t, events) ==
    [ key |-> BackupKey(backup_type, t), backup_type |-> backup_type,
      data |-> data, timestamp |-> t, events |-> events,
      prev_failed |-> << >>, built_at |-> 0, window_from |-> 0,
      fresh |-> FALSE, stale |-> FALSE ]

NoUpload == Upload("none", IncrementalData(<<>>, NoneTime, 0), 0, <<>>)

\* len(data.get('neo4j', {}).get('nodes', [])) and the like
CountOf(data, store, list) ==
    IF store \in DOMAIN data THEN
        IF list \in DOMAIN data[store] THEN Len(data[store][list]) ELSE 0
    ELSE 0

\* BackupMetadata(...).model_dump(mode='json'): the timestamp is its ISO
\* text; the description is opaque
BackupMetadata(data, backup_type, t) ==
    [ timestamp |-> Isoformat(t), backup_type |-> backup_type,
      description |-> "description",
      neo4j_node_count |-> CountOf(data, "neo4j", "nodes"),
      neo4j_edge_count |-> CountOf(data, "neo4j", "edges"),
      postgres_record_count |-> CountOf(data, "postgres", "users") ]

\* a metadata entry of the payload is kept
AttachMetadata_KeepsOld(data, metadata) ==
    [ k \in DOMAIN data \cup { "metadata" } |->
        IF k \in DOMAIN data THEN data[k] ELSE metadata ]

\* data['metadata'] = metadata
AttachMetadata(data, metadata) ==
    [ k \in DOMAIN data \cup { "metadata" } |->
        IF k = "metadata" THEN metadata ELSE data[k] ]

\* a time of a payload is a datetime object, << "datetime", t >>, or a
\* text; DateTimeEncoder.default writes the object as its ISO text
JsonDefault(value) ==
    IF value[1] = "datetime" THEN Isoformat(value[2]) ELSE value

\* json.dumps(data, cls=DateTimeEncoder): the text of the payload, the time
\* at 'timestamp' encoded
JsonDumps(data) ==
    << "json",
       [ k \in DOMAIN data |->
           IF k = "timestamp" THEN JsonDefault(data[k]) ELSE data[k] ] >>

\* json.loads(json_data)
JsonLoads(json_data) == json_data[2]

\* gzip.compress(json_data)
GzipCompress(json_data) == << "gzip", json_data >>

\* gzip.decompress(compressed_data)
GzipDecompress(compressed_data) == compressed_data[2]

\* the caller's dict and the Body of upload_backup
UploadBody(data, backup_type, t) ==
    GzipCompress(JsonDumps(
        AttachMetadata(data, BackupMetadata(data, backup_type, t))))

\* s3.put_object(Bucket, Key, Body); data is history, the payload as it
\* was handed over
PutObject(objects, up) ==
    (up.key :> [ backup_type |-> up.backup_type, data |-> up.data,
                 body |-> UploadBody(up.data, up.backup_type, up.timestamp),
                 timestamp |-> Isoformat(up.timestamp),
                 last_modified |-> now ]) @@ objects

\* download_backup: get_object, gzip.decompress, json.loads
DownloadBackup(objects, key) == JsonLoads(GzipDecompress(objects[key].body))

\* while self.is_running: the loop sleeps again or returns
LoopPc(running) == IF running THEN "sleep" ELSE "done"

\* a loop that an exception of its cycle ends
AfterFailedCycle_Breaks(running) == "done"

\* the cycle's exception was caught and logged (in _sync_changes,
\* _create_full_backup or the loop): back to the while test
AfterFailedCycle(running) == LoopPc(running)

\* a success path that keeps the batch
PendingAfterUpload_Keeps(pending) == pending

\* self.pending_changes.clear()
PendingAfterUpload(pending) == << >>

\* a failure path that clears the batch like the success path
PendingAfterFailure_Clears(pending) == << >>

\* except Exception: "Keep changes for next sync attempt"
PendingAfterFailure(pending) == pending

\* a counter that counts the uploads, not their events
SyncedAfterUpload_CountsUploads(total, pending) == total + 1

\* self.total_changes_synced += len(self.pending_changes)
SyncedAfterUpload(total, pending) == total + Len(pending)

\* _sync_changes without its except clause
SyncChangesRaises_Propagates(uploadFailed) == uploadFailed

\* _sync_changes catches every Exception of the upload: nothing is raised
SyncChangesRaises(uploadFailed) == FALSE

\* force_sync: True unless _sync_changes raised
ForceSyncResult(raised) == IF raised THEN FALSE ELSE TRUE

IdleTask == [ pc |-> "none", must_cancel |-> FALSE ]
NewTask  == [ pc |-> "created", must_cancel |-> FALSE ]
\* at: the timestamp upload_backup took for the full backup in flight
IdleFull == [ pc |-> "none", must_cancel |-> FALSE, at |-> 0 ]
NewFull  == [ IdleFull EXCEPT !.pc = "created" ]
IdleForce == [ pc |-> "idle", ret |-> FALSE, outcome |-> "none" ]
\* held, restarted, tracked_in_flush: history of the call
IdleStop == [ pc |-> "idle", awaiting |-> NoTask, outcome |-> "none",
              flushes |-> 0, raised |-> FALSE, held |-> << NoTask, NoTask >>,
              restarted |-> FALSE, tracked_in_flush |-> FALSE ]

NoHist == << "none", << "none", NoTask >> >>

\* dict.get of a key that is absent
NoneId == -1

\* an exported node or relationship of a backup
ExportedNode(id, labels, properties) ==
    [ id |-> id, labels |-> labels, properties |-> properties ]

ExportedEdge(source_id, target_id, type, properties) ==
    [ source_id |-> source_id, target_id |-> target_id, type |-> type,
      properties |-> properties ]

\* backup_data['neo4j'] of the backups that are restored: a graph of two
\* nodes with a relationship in each direction, and a graph whose only
\* relationship points at a node that is not in the node list
Snapshots ==
    { [ nodes |-> << ExportedNode(0, << "Entity" >>, "props_a"),
                     ExportedNode(1, << >>, "props_b") >>,
        edges |-> << ExportedEdge(0, 1, "KNOWS", "props_e"),
                     ExportedEdge(1, 0, "LIKES", "props_f") >> ],
      [ nodes |-> << ExportedNode(0, << "Entity" >>, "props_a") >>,
        edges |-> << ExportedEdge(0, 1, "KNOWS", "props_e") >> ] }

\* a node of the database; by and old are history: the restore call that
\* created it and the exported id it was created for
GraphNode(labels, properties, by, old) ==
    [ labels |-> labels, properties |-> properties, by |-> by, old |-> old ]

\* a relationship of the database; by and j are history: the restore call
\* that created it and the place of its exported edge in the list
GraphEdge(source, target, type, properties, by, j) ==
    [ source |-> source, target |-> target, type |-> type,
      properties |-> properties, by |-> by, j |-> j ]

\* what the database holds before any restore
ExistingNodes ==
    (0 :> GraphNode(<< "Entity" >>, "props_x", 0, NoneId)) @@
    (1 :> GraphNode(<< "Entity" >>, "props_y", 0, NoneId))

ExistingEdges == { GraphEdge(0, 1, "KNOWS", "props_z", 0, 1) }

\* backup_data of _create_full_backup: what the exporters return of the
\* graph above and of an empty users table
FullData ==
    [ created_by |-> "backup_worker",
      neo4j |-> [ nodes |-> << ExportedNode(0, << "Entity" >>, "props_x"),
                               ExportedNode(1, << "Entity" >>, "props_y") >>,
                  edges |-> << ExportedEdge(0, 1, "KNOWS", "props_z") >> ],
      postgres |-> [ users |-> << >> ] ]

\* a mapping kept from the call before
FreshMapping_Reuses == restore.node_id_mapping

\* node_id_mapping = {}
FreshMapping == << >>

\* the restore call: i and j are the places of the two loops; ops, skipped
\* and created are history
IdleRestore ==
    [ pc |-> "idle", snapshot |-> [ nodes |-> << >>, edges |-> << >> ],
      clear_existing |-> FALSE, i |-> 1, j |-> 1,
      node_id_mapping |-> << >>, nodes_restored |-> 0, edges_restored |-> 0,
      result |-> << >>, ops |-> << >>, skipped |-> 0, created |-> 0,
      driver_open |-> FALSE ]

\* a user record of a backup, as _export_users writes it
ExportedUser(id, email, is_active, metadata, created_at, updated_at) ==
    [ id |-> id, email |-> email, is_active |-> is_active,
      metadata |-> metadata, created_at |-> created_at,
      updated_at |-> updated_at ]

\* backup_data['postgres']['users'] of the backups that are restored: two
\* users, and a backup that has the first email under a new id and the
\* first id under a new email
UserSnapshots ==
    { << ExportedUser("u1", "a@x", TRUE, "meta_a", Isoformat(0), Isoformat(0)),
         ExportedUser("u2", "b@x", TRUE, "meta_b", << >>, << >>) >>,
      << ExportedUser("u3", "a@x", FALSE, "meta_c", Isoformat(0),
                      Isoformat(0)),
         ExportedUser("u1", "c@x", FALSE, "meta_d", Isoformat(0),
                      Isoformat(0)) >> }

\* a row of the users table
UserRow(email, is_active, metadata, created_at, updated_at) ==
    [ email |-> email, is_active |-> is_active, metadata |-> metadata,
      created_at |-> created_at, updated_at |-> updated_at ]

\* the _restore_postgres call: u is the place of the loop; calls, same,
\* first_users and first_rows are history: the calls that returned, whether
\* all of them restored the same users without update, and the table after
\* the first of them
IdlePg ==
    [ pc |-> "idle", users |-> << >>, update_existing |-> FALSE, u |-> 1,
      users_restored |-> 0, result |-> << >>, conn_open |-> FALSE,
      connected |-> FALSE, calls |-> 0, same |-> TRUE,
      first_users |-> << >>, first_rows |-> << >> ]

\* no delete request answered yet; passed: the key was handed to
\* s3.delete_object
NoReply == [ key |-> << >>, status |-> "none", passed |-> FALSE ]

\* a payload with neither graph nor relational data
NoData == [ created_by |-> "none" ]

\* the restore_from_backup call as a whole, and the bootstrap that makes
\* it; listed, probe, had_data, nodes_before and users_before are what
\* initialize_from_latest_backup saw
IdleCall ==
    [ pc |-> "idle", via |-> "none", backup_key |-> << >>,
      restore_neo4j |-> FALSE, restore_postgres |-> FALSE,
      clear_existing |-> FALSE, backup_data |-> NoData, results |-> << >>,
      listed |-> << >>, probe |-> "none", had_data |-> FALSE,
      nodes_before |-> << >>, users_before |-> << >> ]

\* self.driver = None, self.conn = None
NoConn == 0

ExporterKinds == { "neo4j", "postgres" }

\* an exporter object: conn is the driver or connection it holds, a number
\* naming the object; opened, closed, cause and exports are history
IdleExporter ==
    [ pc |-> "idle", conn |-> NoConn, step |-> 1, result |-> << >>,
      opened |-> 0, closed |-> {}, cause |-> "none", exports |-> 0 ]

\* the tables the relational exporter reads
AllTables == { "users", "oauth_accounts", "api_keys" }

\* no payload handed to upload_backup
IdleCodec ==
    [ pc |-> "idle", data |-> NoData, argument |-> NoData,
      backup_type |-> "none", key |-> << >>, timestamp |-> 0,
      downloaded |-> NoData ]

\* the state after construction, but for the bucket, the two databases and
\* the codec
InitNoBucket ==
    /\ enable_full_backup \in BOOLEAN
    /\ change_queue = << >>
    /\ pending_changes = << >>
    /\ last_sync_time = NoneTime
    /\ last_full_backup_time = NoneTime
    /\ total_changes_synced = 0
    /\ is_running = FALSE
    /\ sync_task = NoTask
    /\ full_backup_task = NoTask
    /\ syncLoop = [ t \in TaskIds |-> IdleTask ]
    /\ fullLoop = [ t \in TaskIds |-> IdleFull ]
    /\ forceCall = [ f \in ForceIds |-> IdleForce ]
    /\ stopCall = [ s \in StopIds |-> IdleStop ]
    /\ inflight = [ c \in Cyclers |-> NoUpload ]
    /\ now = 0
    /\ log = << >>
    /\ delivered = {}
    /\ failed_batch = << >>
    /\ last_ok = NoUpload
    /\ drained_at = 0
    /\ noop_start = FALSE
    /\ hist = NoHist
    /\ admin_reply = NoReply
    /\ deletion_keys = {}
    /\ restore = IdleRestore
    /\ restore_count = 0
    /\ pg = IdlePg
    /\ call = IdleCall
    /\ exporter = [ k \in ExporterKinds |-> IdleExporter ]

\* the same over an empty bucket
InitBase == InitNoBucket /\ s3_objects = << >>

\* a graph that holds data, an empty users table, the whole schema
Init ==
    /\ InitBase
    /\ graph_nodes = ExistingNodes
    /\ graph_edges = ExistingEdges
    /\ users = << >>
    /\ tables = AllTables
    /\ oauth_accounts = << >>
    /\ codec = IdleCodec

\* ------------------------------------------- _sync_changes, by its awaits
\* lines 148-178: drain, return if nothing is pending, else build the backup
\* and enter upload_backup up to put_object
BeginCycle(c) ==
    LET p == Drain(pending_changes, change_queue)
        up == [ Upload("incremental",
                       IncrementalData(p, last_sync_time, now), now, p)
                EXCEPT !.prev_failed = failed_batch,
                       !.built_at = Len(log),
                       !.window_from = drained_at,
                       !.fresh = (pending_changes = << >>) ]
    IN  /\ change_queue' = << >>
        /\ pending_changes' = p
        /\ drained_at' = Len(log)
        /\ inflight' = IF p = << >> THEN inflight
                       ELSE [ inflight EXCEPT ![c] = up ]
        /\ UNCHANGED << last_sync_time, total_changes_synced, s3_objects,
                        delivered, failed_batch, last_ok >>

\* would BeginCycle find something to upload
CycleHasWork == Drain(pending_changes, change_queue) # << >>

\* put_object returned: lines 180-185
FinishOk(c) ==
    /\ s3_objects' = PutObject(s3_objects, inflight[c])
    /\ last_sync_time' = now
    /\ total_changes_synced' =
           SyncedAfterUpload(total_changes_synced, pending_changes)
    /\ pending_changes' = PendingAfterUpload(pending_changes)
    /\ delivered' = delivered \cup Seqs(inflight[c].events)
    /\ failed_batch' = << >>
    /\ last_ok' = inflight[c]
    /\ inflight' = [ x \in Cyclers |->
                       IF x = c THEN NoUpload
                       ELSE IF inflight[x] = NoUpload THEN NoUpload
                       ELSE [ inflight[x] EXCEPT !.stale = TRUE ] ]
    /\ UNCHANGED << change_queue, drained_at >>

\* put_object raised: lines 187-189
FinishFail(c) ==
    /\ pending_changes' = PendingAfterFailure(pending_changes)
    /\ failed_batch' = IF inflight[c].stale THEN failed_batch
                       ELSE inflight[c].events
    /\ inflight' = [ inflight EXCEPT ![c] = NoUpload ]
    /\ UNCHANGED << change_queue, last_sync_time, total_changes_synced,
                    s3_objects, delivered, last_ok, drained_at >>

\* CancelledError thrown into the await of put_object: not an Exception, so
\* it leaves _sync_changes; the request may or may not have been carried out
FinishCancelled(c) ==
    /\ \E stored \in BOOLEAN :
          /\ s3_objects' = IF stored THEN PutObject(s3_objects, inflight[c])
                           ELSE s3_objects
          /\ delivered' = IF stored
                          THEN delivered \cup Seqs(inflight[c].events)
                          ELSE delivered
    /\ inflight' = [ inflight EXCEPT ![c] = NoUpload ]
    /\ UNCHANGED << change_queue, pending_changes, last_sync_time,
                    total_changes_synced, failed_batch, last_ok, drained_at >>

\* ------------------------------------------------------------ the clock
Tick ==
    /\ now < MaxTime
    /\ now' = now + 1
    /\ UNCHANGED << serviceVars,
                    enable_full_backup, last_full_backup_time, is_running,
                    sync_task, full_backup_task, syncLoop, fullLoop,
                    forceCall, stopCall, log, noop_start, hist, cycleVars >>

\* --------------------------------------------------------- track_change
\* a queue that holds one item at most
QueueFull_Bounded(q) == Len(q) >= 1

\* Queue.full(): put waits while it holds
QueueFull(q) == QueueMaxsize > 0 /\ Len(q) >= QueueMaxsize

\* Queue.put on an unbounded queue never suspends
TrackChange(in) ==
    /\ Len(log) < MaxEvents
    /\ ~QueueFull(change_queue)
    /\ LET change == DataChange(Len(log) + 1, now, in)
       IN  /\ change_queue' = Append(change_queue, change)
           /\ log' = Append(log, change)
    /\ stopCall' = [ s \in StopIds |->
                       IF stopCall[s].pc = "flush"
                       THEN [ stopCall[s] EXCEPT !.tracked_in_flush = TRUE ]
                       ELSE stopCall[s] ]
    /\ UNCHANGED << serviceVars,
                    enable_full_backup, last_full_backup_time, is_running,
                    sync_task, full_backup_task, syncLoop, fullLoop,
                    forceCall, now, noop_start, hist, pending_changes,
                    last_sync_time, total_changes_synced, s3_objects,
                    inflight, delivered, failed_batch, last_ok, drained_at >>

\* ---------------------------------------------------------------- start
\* the tasks created so far
Created == { t \in TaskIds : syncLoop[t].pc # "none" }

\* lines 73-75: "Backup worker is already running"
StartNoop ==
    /\ noop_start' = TRUE
    /\ UNCHANGED << is_running, sync_task, full_backup_task, syncLoop,
                    fullLoop, stopCall, serviceVars, enable_full_backup,
                    last_full_backup_time, forceCall, now, log, hist,
                    cycleVars >>

\* lines 77-86: set the flag and create the tasks
StartTasks(withFull) ==
    /\ Cardinality(Created) < MaxStarts
    /\ LET t == Cardinality(Created) + 1
       IN  /\ is_running' = TRUE
           /\ sync_task' = t
           /\ syncLoop' = [ syncLoop EXCEPT ![t] = NewTask ]
           /\ IF withFull
              THEN /\ full_backup_task' = t
                   /\ fullLoop' = [ fullLoop EXCEPT ![t] = NewFull ]
              ELSE UNCHANGED << full_backup_task, fullLoop >>
    /\ stopCall' = [ s \in StopIds |->
          IF stopCall[s].pc \in { "idle", "done" }
          THEN stopCall[s]
          ELSE [ stopCall[s] EXCEPT !.restarted = TRUE ] ]
    /\ UNCHANGED << serviceVars,
                    enable_full_backup, last_full_backup_time, forceCall,
                    now, log, noop_start, hist, cycleVars >>

\* start() without the is_running test
Start_NoRunningCheck == StartTasks(enable_full_backup)

\* start() that creates the full-backup task whatever the configuration
Start_AlwaysFull == IF is_running THEN StartNoop ELSE StartTasks(TRUE)

Start == IF is_running THEN StartNoop ELSE StartTasks(enable_full_backup)

\* ----------------------------------------------------------- _sync_loop
SyncLoopEnter(t) ==
    /\ syncLoop[t].pc = "created"
    /\ ~syncLoop[t].must_cancel
    /\ syncLoop' = [ syncLoop EXCEPT ![t].pc = LoopPc(is_running) ]
    /\ UNCHANGED << serviceVars,
                    enable_full_backup, last_full_backup_time, is_running,
                    sync_task, full_backup_task, fullLoop, forceCall,
                    stopCall, now, log, noop_start, hist, cycleVars >>

\* asyncio.sleep(sync_interval) returns and _sync_changes runs to its await
SyncTick(t) ==
    /\ syncLoop[t].pc = "sleep"
    /\ ~syncLoop[t].must_cancel
    /\ BeginCycle(<< "sync", t >>)
    /\ syncLoop' = [ syncLoop EXCEPT
          ![t].pc = IF CycleHasWork THEN "upload" ELSE LoopPc(is_running) ]
    /\ UNCHANGED << serviceVars,
                    enable_full_backup, last_full_backup_time, is_running,
                    sync_task, full_backup_task, fullLoop, forceCall,
                    stopCall, now, log, noop_start, hist >>

SyncUploadOk(t) ==
    /\ syncLoop[t].pc = "upload"
    /\ ~syncLoop[t].must_cancel
    /\ FinishOk(<< "sync", t >>)
    /\ syncLoop' = [ syncLoop EXCEPT ![t].pc = LoopPc(is_running) ]
    /\ hist' = << "ok", << "sync", t >> >>
    /\ UNCHANGED << serviceVars,
                    enable_full_backup, last_full_backup_time, is_running,
                    sync_task, full_backup_task, fullLoop, forceCall,
                    stopCall, now, log, noop_start >>

SyncUploadFail(t) ==
    /\ syncLoop[t].pc = "upload"
    /\ ~syncLoop[t].must_cancel
    /\ FinishFail(<< "sync", t >>)
    /\ syncLoop' = [ syncLoop EXCEPT ![t].pc = AfterFailedCycle(is_running) ]
    /\ hist' = << "failed", << "sync", t >> >>
    /\ UNCHANGED << serviceVars,
                    enable_full_backup, last_full_backup_time, is_running,
                    sync_task, full_backup_task, fullLoop, forceCall,
                    stopCall, now, log, noop_start >>

\* except asyncio.CancelledError: break (or the task never ran)
SyncCancelled(t) ==
    /\ syncLoop[t].pc \in { "created", "sleep", "upload" }
    /\ syncLoop[t].must_cancel
    /\ IF syncLoop[t].pc = "upload" THEN FinishCancelled(<< "sync", t >>)
       ELSE UNCHANGED cycleVars
    /\ syncLoop' = [ syncLoop EXCEPT ![t].pc = "done" ]
    /\ hist' = << IF syncLoop[t].pc = "upload" THEN "cancelled_upload"
                   ELSE "cancelled", << "sync", t >> >>
    /\ UNCHANGED << serviceVars,
                    enable_full_backup, last_full_backup_time, is_running,
                    sync_task, full_backup_task, fullLoop, forceCall,
                    stopCall, now, log, noop_start >>

\* ------------------------------------------------------ _full_backup_loop
FullLoopEnter(t) ==
    /\ fullLoop[t].pc = "created"
    /\ ~fullLoop[t].must_cancel
    /\ fullLoop' = [ fullLoop EXCEPT ![t].pc = LoopPc(is_running) ]
    /\ UNCHANGED << serviceVars,
                    enable_full_backup, last_full_backup_time, is_running,
                    sync_task, full_backup_task, syncLoop, forceCall,
                    stopCall, now, log, noop_start, hist, cycleVars >>

\* asyncio.sleep(full_backup_interval) returns; _create_full_backup awaits
\* the exporters
FullTick(t) ==
    /\ fullLoop[t].pc = "sleep"
    /\ ~fullLoop[t].must_cancel
    /\ fullLoop' = [ fullLoop EXCEPT ![t].pc = "export" ]
    /\ UNCHANGED << serviceVars,
                    enable_full_backup, last_full_backup_time, is_running,
                    sync_task, full_backup_task, syncLoop, forceCall,
                    stopCall, now, log, noop_start, hist, cycleVars >>

\* the exports returned: upload_backup runs to put_object
FullExportOk(t) ==
    /\ fullLoop[t].pc = "export"
    /\ ~fullLoop[t].must_cancel
    /\ fullLoop' = [ fullLoop EXCEPT ![t].pc = "upload", ![t].at = now ]
    /\ UNCHANGED << serviceVars,
                    enable_full_backup, last_full_backup_time, is_running,
                    sync_task, full_backup_task, syncLoop, forceCall,
                    stopCall, now, log, noop_start, hist, cycleVars >>

\* a failure path that records the time like the success path
FullFail_AdvancesTime(t) ==
    /\ fullLoop[t].pc \in { "export", "upload" }
    /\ ~fullLoop[t].must_cancel
    /\ fullLoop' = [ fullLoop EXCEPT ![t].pc = AfterFailedCycle(is_running),
                                     ![t].at = 0 ]
    /\ last_full_backup_time' = now
    /\ hist' = << "failed", << "full", t >> >>
    /\ UNCHANGED << serviceVars,
                    enable_full_backup, is_running, sync_task,
                    full_backup_task, syncLoop, forceCall, stopCall, now,
                    log, noop_start, cycleVars >>

\* an exporter or put_object raised: except Exception in _create_full_backup
FullFail(t) ==
    /\ fullLoop[t].pc \in { "export", "upload" }
    /\ ~fullLoop[t].must_cancel
    /\ fullLoop' = [ fullLoop EXCEPT ![t].pc = AfterFailedCycle(is_running),
                                     ![t].at = 0 ]
    /\ hist' = << "failed", << "full", t >> >>
    /\ UNCHANGED << serviceVars,
                    enable_full_backup, last_full_backup_time, is_running,
                    sync_task, full_backup_task, syncLoop, forceCall,
                    stopCall, now, log, noop_start, cycleVars >>

FullUploadOk(t) ==
    /\ fullLoop[t].pc = "upload"
    /\ ~fullLoop[t].must_cancel
    /\ s3_objects' = PutObject(s3_objects,
                        Upload("scheduled", FullData, fullLoop[t].at, << >>))
    /\ last_full_backup_time' = now
    /\ fullLoop' = [ fullLoop EXCEPT ![t].pc = LoopPc(is_running), ![t].at = 0 ]
    /\ hist' = << "ok", << "full", t >> >>
    /\ UNCHANGED << serviceVars,
                    enable_full_backup, is_running, sync_task,
                    full_backup_task, syncLoop, forceCall, stopCall, now,
                    log, noop_start, change_queue, pending_changes,
                    last_sync_time, total_changes_synced, inflight,
                    delivered, failed_batch, last_ok, drained_at >>

FullCancelled(t) ==
    /\ fullLoop[t].pc \in { "created", "sleep", "export", "upload" }
    /\ fullLoop[t].must_cancel
    /\ \E stored \in { FALSE, fullLoop[t].pc = "upload" } :
          s3_objects' =
              IF stored
              THEN PutObject(s3_objects,
                      Upload("scheduled", FullData, fullLoop[t].at, << >>))
              ELSE s3_objects
    /\ fullLoop' = [ fullLoop EXCEPT ![t].pc = "done", ![t].at = 0 ]
    /\ UNCHANGED << serviceVars,
                    enable_full_backup, last_full_backup_time, is_running,
                    sync_task, full_backup_task, syncLoop, forceCall,
                    stopCall, now, log, noop_start, hist, change_queue,
                    pending_changes, last_sync_time, total_changes_synced,
                    inflight, delivered, failed_batch, last_ok, drained_at >>

\* ----------------------------------------------------------- force_sync
ForceSync(f) ==
    /\ forceCall[f].pc = "idle"
    /\ BeginCycle(<< "force", f >>)
    /\ forceCall' = [ forceCall EXCEPT ![f] =
          IF CycleHasWork THEN [ @ EXCEPT !.pc = "upload" ]
          ELSE [ pc |-> "done", outcome |-> "empty",
                 ret |-> ForceSyncResult(FALSE) ] ]
    /\ UNCHANGED << serviceVars,
                    enable_full_backup, last_full_backup_time, is_running,
                    sync_task, full_backup_task, syncLoop, fullLoop,
                    stopCall, now, log, noop_start, hist >>

ForceUploadOk(f) ==
    /\ forceCall[f].pc = "upload"
    /\ FinishOk(<< "force", f >>)
    /\ forceCall' = [ forceCall EXCEPT ![f] =
          [ pc |-> "done", outcome |-> "ok",
            ret |-> ForceSyncResult(FALSE) ] ]
    /\ UNCHANGED << serviceVars,
                    enable_full_backup, last_full_backup_time, is_running,
                    sync_task, full_backup_task, syncLoop, fullLoop,
                    stopCall, now, log, noop_start, hist >>

ForceUploadFail(f) ==
    /\ forceCall[f].pc = "upload"
    /\ FinishFail(<< "force", f >>)
    /\ forceCall' = [ forceCall EXCEPT ![f] =
          [ pc |-> "done", outcome |-> "failed",
            ret |-> ForceSyncResult(SyncChangesRaises(TRUE)) ] ]
    /\ UNCHANGED << serviceVars,
                    enable_full_backup, last_full_backup_time, is_running,
                    sync_task, full_backup_task, syncLoop, fullLoop,
                    stopCall, now, log, noop_start, hist >>

\* ----------------------------------------------------------------- stop
\* an await that returns as soon as the task was asked to cancel
TaskDone_NoWait(tab, t) == tab[t].pc = "done" \/ tab[t].must_cancel

\* `await task` returns (or raises CancelledError, caught) once the task is
\* done
TaskDone(tab, t) == tab[t].pc = "done"

\* task.cancel(): no effect on a task that is done
CancelTask(tab, t) ==
    IF TaskDone(tab, t) THEN tab ELSE [ tab EXCEPT ![t].must_cancel = TRUE ]

\* lines 107-110: the final sync, up to its await
StopFinalSync(s, sc) ==
    /\ IF CycleHasWork
       THEN /\ BeginCycle(<< "stop", s >>)
            /\ stopCall' = [ stopCall EXCEPT ![s] =
                  [ sc EXCEPT !.pc = "flush", !.awaiting = NoTask,
                              !.flushes = @ + 1 ] ]
       ELSE /\ UNCHANGED cycleVars
            /\ stopCall' = [ stopCall EXCEPT ![s] =
                  [ sc EXCEPT !.pc = "done", !.awaiting = NoTask ] ]
    /\ UNCHANGED fullLoop

\* lines 100-105: cancel the full-backup task and await it
StopCancelFull(s, sc) ==
    IF full_backup_task # NoTask /\ ~TaskDone(fullLoop, full_backup_task)
    THEN /\ fullLoop' = CancelTask(fullLoop, full_backup_task)
         /\ stopCall' = [ stopCall EXCEPT ![s] =
               [ sc EXCEPT !.pc = "await_full",
                           !.awaiting = full_backup_task ] ]
         /\ UNCHANGED cycleVars
    ELSE StopFinalSync(s, sc)

\* lines 90-98: clear the flag, cancel the sync task and await it
StopBegin(s) ==
    /\ stopCall[s].pc = "idle"
    /\ is_running' = FALSE
    /\ LET sc == [ stopCall[s] EXCEPT
                     !.held = << sync_task, full_backup_task >> ]
       IN  IF sync_task # NoTask /\ ~TaskDone(syncLoop, sync_task)
           THEN /\ syncLoop' = CancelTask(syncLoop, sync_task)
                /\ stopCall' = [ stopCall EXCEPT ![s] =
                      [ sc EXCEPT !.pc = "await_sync",
                                  !.awaiting = sync_task ] ]
                /\ UNCHANGED << fullLoop, cycleVars >>
           ELSE /\ StopCancelFull(s, sc)
                /\ UNCHANGED syncLoop
    /\ UNCHANGED << serviceVars,
                    enable_full_backup, last_full_backup_time, sync_task,
                    full_backup_task, forceCall, now, log, noop_start, hist >>

\* await self.sync_task returns
StopSyncAwaited(s) ==
    /\ stopCall[s].pc = "await_sync"
    /\ TaskDone(syncLoop, stopCall[s].awaiting)
    /\ StopCancelFull(s, stopCall[s])
    /\ UNCHANGED << serviceVars,
                    enable_full_backup, last_full_backup_time, is_running,
                    sync_task, full_backup_task, syncLoop, forceCall, now,
                    log, noop_start, hist >>

\* await self.full_backup_task returns
StopFullAwaited(s) ==
    /\ stopCall[s].pc = "await_full"
    /\ TaskDone(fullLoop, stopCall[s].awaiting)
    /\ StopFinalSync(s, stopCall[s])
    /\ UNCHANGED << serviceVars,
                    enable_full_backup, last_full_backup_time, is_running,
                    sync_task, full_backup_task, syncLoop, forceCall, now,
                    log, noop_start, hist >>

StopFlushOk(s) ==
    /\ stopCall[s].pc = "flush"
    /\ FinishOk(<< "stop", s >>)
    /\ stopCall' = [ stopCall EXCEPT ![s].pc = "done", ![s].outcome = "ok" ]
    /\ UNCHANGED << serviceVars,
                    enable_full_backup, last_full_backup_time, is_running,
                    sync_task, full_backup_task, syncLoop, fullLoop,
                    forceCall, now, log, noop_start, hist >>

StopFlushFail(s) ==
    /\ stopCall[s].pc = "flush"
    /\ FinishFail(<< "stop", s >>)
    /\ stopCall' = [ stopCall EXCEPT ![s].pc = "done",
                                     ![s].outcome = "failed",
                                     ![s].raised = SyncChangesRaises(TRUE) ]
    /\ UNCHANGED << serviceVars,
                    enable_full_backup, last_full_backup_time, is_running,
                    sync_task, full_backup_task, syncLoop, fullLoop,
                    forceCall, now, log, noop_start, hist >>

\* ------------------------------------------- the backup router's delete
\* the worker's fields and coroutines
workerVars == << enable_full_backup, last_full_backup_time, is_running,
                 sync_task, full_backup_task, syncLoop, fullLoop, forceCall,
                 stopCall, log, noop_start, hist, change_queue,
                 pending_changes, last_sync_time, total_changes_synced,
                 inflight, delivered, failed_batch, last_ok, drained_at >>

\* item_type of save_deletion_backup
ItemTypes == { "nodes", "users" }

\* text `pat` occurs in text `txt` at position i
OccursAt(pat, txt, i) ==
    /\ i + Len(pat) - 1 <= Len(txt)
    /\ \A j \in 1..Len(pat) : txt[i + j - 1] = pat[j]

\* pat in txt
Contains(pat, txt) == \E i \in 1..Len(txt) : OccursAt(pat, txt, i)

\* txt.startswith(pat)
StartsWith(txt, pat) == OccursAt(pat, txt, 1)

\* f'{self.prefix}/deletions/_{timestamp_str}_{item_type}_deletion.json.gz'
DeletionKey(item_type, t) ==
    << "prefix", "/", "deletions", "/", "_", Strftime(t), "_", item_type,
       "_", "deletion.json.gz" >>

\* data of save_deletion_backup; the items are opaque
DeletionData(item_type, t) ==
    [ deletion_metadata |->
          [ timestamp |-> Isoformat(t), item_type |-> item_type,
            reason |-> "manual_deletion" ],
      deleted_items |-> "items" ]

\* the object save_deletion_backup puts at time t
DeletionObject(item_type, t) ==
    [ backup_type |-> "deletions",
      data |-> DeletionData(item_type, t),
      body |-> GzipCompress(JsonDumps(DeletionData(item_type, t))),
      timestamp |-> Isoformat(t),
      last_modified |-> t ]

\* save_deletion_backup: put_object returned and the key is handed back
SaveDeletionBackupOk(item_type) ==
    /\ s3_objects' =
           (DeletionKey(item_type, now) :> DeletionObject(item_type, now))
               @@ s3_objects
    /\ deletion_keys' = deletion_keys \cup { DeletionKey(item_type, now) }
    /\ UNCHANGED << workerVars, moreVars, now, admin_reply, restoreVars >>

\* create_backup of the router: upload_backup(backup_type='manual') returned
ManualBackupOk(data) ==
    /\ s3_objects' =
           PutObject(s3_objects, Upload("manual", data, now, << >>))
    /\ UNCHANGED << workerVars, now, serviceVars >>

\* '/deletions/_'
ProtectedMark == << "/", "deletions", "/", "_" >>

\* a router that protects nothing
IsProtected_Never(backup_key) == FALSE

\* if '/deletions/_' in backup_key
IsProtected(backup_key) == Contains(ProtectedMark, backup_key)

\* s3.delete_object(Bucket, Key): no error for a key that is not stored
DeleteObject(objects, key) ==
    [ k \in DOMAIN objects \ { key } |-> objects[k] ]

\* the keys a client may name: those stored, and some that are not
DeleteInputs ==
    DOMAIN s3_objects \cup
        { << "elsewhere", "/", "deletions", "/", "_", "x" >>,
          << "prefix", "/", "deletions", "/", "x" >>,
          << "prefix", "/", "manual", "/", "gone" >> }

\* delete_backup of the router: 403 for a protected key, else
\* s3_service.delete_backup, whose ClientError becomes a 500
DeleteBackup(backup_key) ==
    /\ IF IsProtected(backup_key)
       THEN /\ admin_reply' = [ key |-> backup_key, status |-> "403",
                                passed |-> FALSE ]
            /\ UNCHANGED s3_objects
       ELSE \E deleted \in BOOLEAN :
               IF deleted
               THEN /\ s3_objects' = DeleteObject(s3_objects, backup_key)
                    /\ admin_reply' = [ key |-> backup_key,
                                        status |-> "200", passed |-> TRUE ]
               ELSE /\ s3_objects' = s3_objects
                    /\ admin_reply' = [ key |-> backup_key,
                                        status |-> "500", passed |-> TRUE ]
    /\ UNCHANGED << workerVars, moreVars, now, deletion_keys, restoreVars >>

\* -------------------------------------------------------- restore service
\* node_id_mapping.get(id)
MappingGet(mapping, id) ==
    IF id \in DOMAIN mapping THEN mapping[id] ELSE NoneId

\* where _restore_neo4j is after i - 1 nodes and j - 1 edges: in the node
\* loop, in the edge loop, or at its return
RestorePc(snapshot, i, j) ==
    IF i <= Len(snapshot.nodes) THEN "nodes"
    ELSE IF j <= Len(snapshot.edges) THEN "edges"
    ELSE "done"

\* the value _restore_neo4j returns
RestoreResult(r) ==
    [ nodes_restored |-> r.nodes_restored,
      edges_restored |-> r.edges_restored,
      statistics |-> "statistics" ]

\* a restore that leaves its driver open
DriverClose_Skipped(r) == r

\* finally: await driver.close()
DriverClose(r) == [ r EXCEPT !.driver_open = FALSE ]

\* r after a loop step: at the end of the edge loop the result is returned
Advance(r) ==
    LET pc == RestorePc(r.snapshot, r.i, r.j)
        q  == [ r EXCEPT !.pc = pc ]
    IN  IF pc = "done"
        THEN DriverClose([ q EXCEPT !.result = RestoreResult(q) ])
        ELSE q

\* a clear that deletes the nodes first
ClearOrder_NodesFirst == << "clear_nodes", "clear_edges" >>

\* _clear_neo4j_data: 'MATCH ()-[r]->() DELETE r', then 'MATCH (n) DELETE n'
ClearOrder == << "clear_edges", "clear_nodes" >>

\* the step of the clear that follows step pc, or the loops
AfterClear(r) ==
    IF r.pc = ClearOrder[1] THEN [ r EXCEPT !.pc = ClearOrder[2] ]
    ELSE Advance([ r EXCEPT !.pc = "nodes" ])

\* _restore_neo4j up to its first query: the driver is made, the mapping
\* is empty
Neo4jStart(snapshot, clear_existing) ==
    LET r == [ IdleRestore EXCEPT !.snapshot = snapshot,
                                  !.clear_existing = clear_existing,
                                  !.node_id_mapping = FreshMapping,
                                  !.driver_open = TRUE ]
    IN  IF clear_existing THEN [ r EXCEPT !.pc = ClearOrder[1] ]
        ELSE Advance(r)

\* restore_from_backup(backup_key, clear_existing) up to the first query of
\* _restore_neo4j, the backup being downloaded
RestoreBegin(snapshot, clear_existing) ==
    /\ restore.pc \in { "idle", "done", "failed" }
    /\ call.pc = "idle"
    /\ restore_count < MaxRestores
    /\ restore_count' = restore_count + 1
    /\ restore' = Neo4jStart(snapshot, clear_existing)
    /\ UNCHANGED << workerVars, moreVars, cycleVars, now, adminVars, graph_nodes,
                    graph_edges >>

\* 'MATCH ()-[r]->() DELETE r'
RestoreClearEdges ==
    /\ restore.pc = "clear_edges"
    /\ graph_edges' = {}
    /\ restore' = AfterClear([ restore EXCEPT
                                  !.ops = Append(@, "delete_edges") ])
    /\ UNCHANGED << workerVars, moreVars, cycleVars, now, adminVars, graph_nodes,
                    restore_count >>

\* 'MATCH (n) DELETE n': the database refuses to delete a node that still
\* has relationships
RestoreClearNodes ==
    /\ restore.pc = "clear_nodes"
    /\ IF \E e \in graph_edges : TRUE
       THEN /\ restore' = DriverClose([ restore EXCEPT
                              !.pc = "failed",
                              !.ops = Append(@, "delete_nodes") ])
            /\ UNCHANGED graph_nodes
       ELSE /\ graph_nodes' = << >>
            /\ restore' = AfterClear([ restore EXCEPT
                                          !.ops = Append(@, "delete_nodes") ])
    /\ UNCHANGED << workerVars, moreVars, cycleVars, now, adminVars, graph_edges,
                    restore_count >>

\* a MERGE: no node is created when one with these labels and properties
\* is there
CreateNode_Merges(nodes, new_id, node, by) ==
    IF \E id \in DOMAIN nodes : /\ nodes[id].labels = node.labels
                                /\ nodes[id].properties = node.properties
    THEN nodes
    ELSE (new_id :> GraphNode(node.labels, node.properties, by, node.id))
             @@ nodes

\* 'CREATE (n:{labels} $properties) RETURN id(n) as id'
CreateNode(nodes, new_id, node, by) ==
    (new_id :> GraphNode(node.labels, node.properties, by, node.id)) @@ nodes

\* one turn of the node loop: _restore_node creates the node and the id the
\* database assigned is recorded
RestoreNode ==
    /\ restore.pc = "nodes"
    /\ LET node == restore.snapshot.nodes[restore.i]
       IN  \E new_id \in (0..MaxNodeId) \ DOMAIN graph_nodes :
              /\ graph_nodes' =
                     CreateNode(graph_nodes, new_id, node, restore_count)
              /\ restore' = Advance([ restore EXCEPT
                     !.node_id_mapping = (node.id :> new_id) @@ @,
                     !.nodes_restored = @ + 1,
                     !.i = @ + 1,
                     !.ops = Append(@, "create_node") ])
    /\ UNCHANGED << workerVars, moreVars, cycleVars, now, adminVars, graph_edges,
                    restore_count >>

\* one turn of the edge loop: _restore_edge returns early when an endpoint
\* is not in the mapping, else creates the relationship between the nodes
\* the two MATCH clauses find
RestoreEdge ==
    /\ restore.pc = "edges"
    /\ LET edge == restore.snapshot.edges[restore.j]
           source_id == MappingGet(restore.node_id_mapping, edge.source_id)
           target_id == MappingGet(restore.node_id_mapping, edge.target_id)
           skip == source_id = NoneId \/ target_id = NoneId
           found == source_id \in DOMAIN graph_nodes
                       /\ target_id \in DOMAIN graph_nodes
       IN  /\ graph_edges' =
                  IF skip \/ ~found THEN graph_edges
                  ELSE graph_edges \cup
                          { GraphEdge(source_id, target_id, edge.type,
                                      edge.properties, restore_count,
                                      restore.j) }
           /\ restore' = Advance([ restore EXCEPT
                  !.edges_restored = @ + 1,
                  !.j = @ + 1,
                  !.skipped = IF skip THEN @ + 1 ELSE @,
                  !.created = IF skip \/ ~found THEN @ ELSE @ + 1,
                  !.ops = IF skip THEN @ ELSE Append(@, "create_edge") ])
    /\ UNCHANGED << workerVars, moreVars, cycleVars, now, adminVars, graph_nodes,
                    restore_count >>

\* a query raises Neo4jError: logged and raised to the caller
RestoreFail ==
    /\ restore.pc \in { "clear_edges", "clear_nodes", "nodes", "edges" }
    /\ restore' = DriverClose([ restore EXCEPT !.pc = "failed" ])
    /\ UNCHANGED << workerVars, moreVars, cycleVars, now, adminVars, graph_nodes,
                    graph_edges, restore_count >>

\* ------------------------------------------------------ relational restore
\* 'SELECT id FROM users WHERE email = $1': the rows with that email
RowsWithEmail(rows, email) == { id \in DOMAIN rows : rows[id].email = email }

\* a restore that never skips
SkipExisting_Never(existing, update_existing) == FALSE

\* if existing and not update_existing: return False
SkipExisting(existing, update_existing) == existing /\ ~update_existing

\* datetime.fromisoformat(text) if text else datetime.utcnow()
FromIsoformatOrNow(text, t) == IF text = << >> THEN t ELSE text[2]

\* 'UPDATE users SET is_active = $2, metadata = $3, updated_at = NOW()
\* WHERE email = $1'
UpdateUser(rows, user, t) ==
    [ id \in DOMAIN rows |->
        IF rows[id].email = user.email
        THEN [ rows[id] EXCEPT !.is_active = user.is_active,
                               !.metadata = user.metadata,
                               !.updated_at = t ]
        ELSE rows[id] ]

\* 'INSERT INTO users ... ON CONFLICT (id) DO UPDATE SET email, is_active,
\* metadata, updated_at = NOW()'
InsertUser(rows, user, t) ==
    IF user.id \in DOMAIN rows
    THEN [ rows EXCEPT ![user.id] =
              [ @ EXCEPT !.email = user.email,
                         !.is_active = user.is_active,
                         !.metadata = user.metadata,
                         !.updated_at = t ] ]
    ELSE (user.id :> UserRow(user.email, user.is_active, user.metadata,
                             FromIsoformatOrNow(user.created_at, t),
                             FromIsoformatOrNow(user.updated_at, t)))
             @@ rows

\* ids a database would generate
GeneratedIds == { "g1", "g2", "g3", "g4", "g5", "g6", "g7", "g8" }

\* a plain INSERT under a generated id, whatever the table holds
RestoreUser_AlwaysInserts(rows, user, update_existing, t) ==
    [ rows |-> ((CHOOSE id \in GeneratedIds : id \notin DOMAIN rows) :>
                   UserRow(user.email, user.is_active, user.metadata, t, t))
                  @@ rows,
      restored |-> TRUE ]

\* _restore_user: the table after it and the value it returns
RestoreUser(rows, user, update_existing, t) ==
    LET existing == RowsWithEmail(rows, user.email) # {}
    IN  IF SkipExisting(existing, update_existing)
        THEN [ rows |-> rows, restored |-> FALSE ]
        ELSE IF existing
        THEN [ rows |-> UpdateUser(rows, user, t), restored |-> TRUE ]
        ELSE [ rows |-> InsertUser(rows, user, t), restored |-> TRUE ]

\* the value _restore_postgres returns
PgResult(p) ==
    [ users_restored |-> p.users_restored, statistics |-> "statistics" ]

\* a restore that leaves its connection open
ConnClose_Skipped(p) == p

\* finally: await conn.close()
ConnClose(p) == [ p EXCEPT !.conn_open = FALSE ]

\* p after a loop step, rows being the table: at the end of the loop the
\* result is returned
PgAdvance(p, rows) ==
    IF p.u <= Len(p.users) THEN [ p EXCEPT !.pc = "users" ]
    ELSE ConnClose([ p EXCEPT
             !.pc = "done",
             !.result = PgResult(p),
             !.calls = @ + 1,
             !.first_rows = IF p.calls = 0 THEN rows ELSE @ ])

\* what asyncpg.connect meets
PgOutcomes == { "no_dsn", "connect_failed", "connected" }

\* _restore_postgres up to its first query: the early return without a
\* DSN, the connection that fails, or the loop
PgStart(p, rows, users_list, update_existing, outcome) ==
    LET q == [ IdlePg EXCEPT
                 !.users = users_list,
                 !.update_existing = update_existing,
                 !.calls = p.calls,
                 !.first_users = IF p.first_users = << >> THEN users_list
                                 ELSE p.first_users,
                 !.first_rows = p.first_rows,
                 !.same = /\ p.same
                          /\ ~update_existing
                          /\ outcome = "connected"
                          /\ p.first_users \in { << >>, users_list } ]
    IN  CASE outcome = "no_dsn" ->
                 [ q EXCEPT !.pc = "done",
                            !.result = [ error |-> "not configured" ] ]
          [] outcome = "connect_failed" -> [ q EXCEPT !.pc = "failed" ]
          [] OTHER -> PgAdvance([ q EXCEPT !.conn_open = TRUE,
                                           !.connected = TRUE ], rows)

\* restore_from_backup(backup_key, restore_neo4j=False, clear_existing) up
\* to the first query of _restore_postgres, the backup being downloaded
PgBegin(users_list, update_existing, outcome) ==
    /\ pg.pc \in { "idle", "done", "failed" }
    /\ call.pc = "idle"
    /\ restore_count < MaxRestores
    /\ restore_count' = restore_count + 1
    /\ pg' = PgStart(pg, users, users_list, update_existing, outcome)
    /\ UNCHANGED << workerVars, s3_objects, now, adminVars, graph_nodes,
                    graph_edges, restore, users, call, exportVars, codec >>

\* one turn of the user loop: _restore_user, counted when it returns True
PgUser ==
    /\ pg.pc = "users"
    /\ LET r == RestoreUser(users, pg.users[pg.u], pg.update_existing, now)
       IN  /\ users' = r.rows
           /\ pg' = PgAdvance([ pg EXCEPT
                         !.u = @ + 1,
                         !.users_restored = IF r.restored THEN @ + 1 ELSE @ ],
                               r.rows)
    /\ UNCHANGED << workerVars, s3_objects, now, adminVars, restoreVars,
                    call, exportVars, codec >>

\* a query raises: logged and raised to the caller, the connection closed
PgFail ==
    /\ pg.pc = "users"
    /\ pg' = ConnClose([ pg EXCEPT !.pc = "failed" ])
    /\ UNCHANGED << workerVars, s3_objects, now, adminVars, restoreVars,
                    users, call, exportVars, codec >>

\* ------------------------------------------------------------ exporters
\* the queries of export_all_data, in their order
SubExports(kind) ==
    IF kind = "neo4j" THEN << "nodes", "edges", "statistics" >>
    ELSE << "users", "oauth", "api_keys", "statistics" >>

\* the ids of the users table in the order of ORDER BY id
UserIdOrder == << "u1", "u2", "u3" >>

\* the members of seq that are in set, in the order of seq
RECURSIVE Filter(_, _)
Filter(seq, set) ==
    IF seq = << >> THEN << >>
    ELSE IF Head(seq) \in set THEN << Head(seq) >> \o Filter(Tail(seq), set)
    ELSE Filter(Tail(seq), set)

\* _export_users: 'SELECT ... FROM users ORDER BY id', the times as text
ExportUsers(rows) ==
    LET ids == Filter(UserIdOrder, DOMAIN rows)
    IN  [ i \in 1..Len(ids) |->
            ExportedUser(ids[i], rows[ids[i]].email, rows[ids[i]].is_active,
                         rows[ids[i]].metadata,
                         Isoformat(rows[ids[i]].created_at),
                         Isoformat(rows[ids[i]].updated_at)) ]

\* the number of characters of a token that the mask shows
MaskKeep == 8

\* token[-8:]
LastChars(token, n) ==
    IF Len(token) <= n THEN token
    ELSE SubSeq(token, Len(token) - n + 1, Len(token))

\* f"***{token[-8:]}" if token else None
MaskToken(token) ==
    IF token = << >> THEN [ is_none |-> TRUE, text |-> << >> ]
    ELSE [ is_none |-> FALSE,
           text |-> << "*", "*", "*" >> \o LastChars(token, MaskKeep) ]

\* a record of _export_oauth_data
OAuthRecord(row) ==
    [ id |-> row.id, user_id |-> row.user_id, provider |-> row.provider,
      access_token_masked |-> MaskToken(row.access_token),
      refresh_token_masked |-> MaskToken(row.refresh_token) ]

\* a row of oauth_accounts
OAuthRow(access_token, refresh_token) ==
    [ id |-> "o1", user_id |-> "u1", provider |-> "google",
      access_token |-> access_token, refresh_token |-> refresh_token ]

\* the rows of api_keys
ApiKeyRows == << [ id |-> "k1", user_id |-> "u1", key_prefix |-> "gk" ] >>

\* a query of the relational export: raised is an UndefinedTableError
\* of a SELECT on a table that is missing
PostgresSubExport(name) ==
    CASE name = "users" ->
             IF "users" \in tables
             THEN [ raised |-> FALSE, value |-> ExportUsers(users) ]
             ELSE [ raised |-> TRUE, value |-> << >> ]
      [] name = "oauth" ->
             IF "oauth_accounts" \in tables
             THEN [ raised |-> FALSE,
                    value |-> [ i \in 1..Len(oauth_accounts) |->
                                  OAuthRecord(oauth_accounts[i]) ] ]
             ELSE [ raised |-> FALSE, value |-> << >> ]
      [] name = "api_keys" ->
             IF "api_keys" \in tables
             THEN [ raised |-> FALSE, value |-> ApiKeyRows ]
             ELSE [ raised |-> FALSE, value |-> << >> ]
      [] OTHER ->
             IF "users" \in tables
             THEN [ raised |-> FALSE,
                    value |-> << [ user_count |->
                                      Cardinality(DOMAIN users) ] >> ]
             ELSE [ raised |-> TRUE, value |-> << >> ]

\* the node ids in the order of ORDER BY id(n)
RECURSIVE IdsInOrder(_)
IdsInOrder(ids) ==
    IF ids = {} THEN << >>
    ELSE LET least == CHOOSE i \in ids : \A o \in ids : i <= o
         IN  << least >> \o IdsInOrder(ids \ { least })

\* the relationships in the order of ORDER BY id(r), the order they were
\* made in
RECURSIVE EdgesInOrder(_)
EdgesInOrder(edges) ==
    IF edges = {} THEN << >>
    ELSE LET first == CHOOSE e \in edges :
                         \A o \in edges :
                            \/ e.by < o.by
                            \/ e.by = o.by /\ e.j <= o.j
         IN  << ExportedEdge(first.source, first.target, first.type,
                             first.properties) >>
                 \o EdgesInOrder(edges \ { first })

\* the labels in the order of their text
LabelOrder == << "Entity", "Episodic", "unlabeled" >>

\* sorted(record['labels'])
SortedLabels(labels) ==
    Filter(LabelOrder, { labels[i] : i \in 1..Len(labels) })

\* ':'.join(labels)
RECURSIVE JoinLabels(_)
JoinLabels(labels) ==
    IF Len(labels) <= 1 THEN labels
    ELSE << Head(labels), ":" >> \o JoinLabels(Tail(labels))

\* ':'.join(sorted(record['labels'])) if record['labels'] else 'unlabeled';
\* a key is the sequence of the tokens of its text
LabelKey(labels) ==
    IF labels = << >> THEN << "unlabeled" >>
    ELSE JoinLabels(SortedLabels(labels))

\* sum(counts.values())
RECURSIVE SumValues(_)
SumValues(counts) ==
    IF DOMAIN counts = {} THEN 0
    ELSE LET k == CHOOSE k \in DOMAIN counts : TRUE
         IN  counts[k] +
                 SumValues([ o \in DOMAIN counts \ { k } |-> counts[o] ])

\* _get_database_stats: 'RETURN labels(n) as labels, count(n) as count' has
\* a record for every list of labels, in an order the database chooses;
\* node_counts[label_key] = record['count'] keeps, for a key, the count of
\* the record that came last. The result is the set of the dicts the
\* orders can give.
GetDatabaseStats(nodes, edges) ==
    LET groups == { nodes[i].labels : i \in DOMAIN nodes }
        countOf(g) == Cardinality({ i \in DOMAIN nodes : nodes[i].labels = g })
        keys == { LabelKey(g) : g \in groups }
        types == { e.type : e \in edges }
        edge_counts ==
            [ ty \in types |-> Cardinality({ e \in edges : e.type = ty }) ]
    IN  { [ node_counts_by_label |-> node_counts,
            edge_counts_by_type |-> edge_counts,
            total_nodes |-> SumValues(node_counts),
            total_edges |-> SumValues(edge_counts) ] :
          node_counts \in
              { f \in [ keys -> 0..Cardinality(DOMAIN nodes) ] :
                  \A k \in keys :
                     \E g \in groups :
                        LabelKey(g) = k /\ f[k] = countOf(g) } }

\* a query of the graph export; stats is what _get_database_stats returns
Neo4jSubExport(name, stats) ==
    CASE name = "nodes" ->
             LET ids == IdsInOrder(DOMAIN graph_nodes)
             IN  [ raised |-> FALSE,
                   value |-> [ i \in 1..Len(ids) |->
                                 ExportedNode(ids[i],
                                              graph_nodes[ids[i]].labels,
                                              graph_nodes[ids[i]].properties) ] ]
      [] name = "edges" ->
             [ raised |-> FALSE, value |-> EdgesInOrder(graph_edges) ]
      [] OTHER -> [ raised |-> FALSE, value |-> << stats >> ]

SubExport(kind, name, stats) ==
    IF kind = "neo4j" THEN Neo4jSubExport(name, stats)
    ELSE PostgresSubExport(name)

\* connect(): a driver or connection is made when none is held
Connect(e) ==
    IF e.conn = NoConn
    THEN [ e EXCEPT !.conn = e.opened + 1, !.opened = @ + 1 ]
    ELSE e

\* a close() that keeps the object
Close_KeepsConn(e) == e

\* close(): the object held is closed and dropped
Close(e) ==
    IF e.conn # NoConn
    THEN [ e EXCEPT !.conn = NoConn, !.closed = @ \cup { e.conn } ]
    ELSE e

\* export_all_data up to its first query: asyncpg.connect may raise, and
\* then nothing is held
ExportAllData(kind, connected) ==
    /\ exporter[kind].pc \in { "idle", "returned", "raised" }
    /\ exporter[kind].exports < MaxExports
    /\ kind = "neo4j" => connected
    /\ LET e == [ exporter[kind] EXCEPT !.exports = @ + 1, !.step = 1,
                                        !.result = << >>,
                                        !.cause = "none" ]
       IN  exporter' =
              [ exporter EXCEPT ![kind] =
                  IF connected \/ e.conn # NoConn
                  THEN [ Connect(e) EXCEPT !.pc = "exporting" ]
                  ELSE [ e EXCEPT !.pc = "raised", !.cause = "connect" ] ]
    /\ UNCHANGED << workerVars, s3_objects, now, adminVars, restoreVars,
                    relVars, call, tables, oauth_accounts, codec >>

\* one query of export_all_data: its value is kept, or its error is raised
\* through the finally; after the last query the dict is returned
ExportStep(kind) ==
    /\ exporter[kind].pc = "exporting"
    /\ \E stats \in GetDatabaseStats(graph_nodes, graph_edges) :
       LET e == exporter[kind]
           name == SubExports(kind)[e.step]
           sub == SubExport(kind, name, stats)
       IN  exporter' =
              [ exporter EXCEPT ![kind] =
                  IF sub.raised
                  THEN Close([ e EXCEPT !.pc = "raised",
                                        !.cause = "undefined_table" ])
                  ELSE LET f == [ e EXCEPT
                                    !.result = (name :> sub.value) @@ @,
                                    !.step = @ + 1 ]
                       IN  IF f.step > Len(SubExports(kind))
                           THEN Close([ f EXCEPT !.pc = "returned" ])
                           ELSE f ]
    /\ UNCHANGED << workerVars, s3_objects, now, adminVars, restoreVars,
                    relVars, call, tables, oauth_accounts, codec >>

\* the store fails a query: logged, raised, the connection released
ExportRaise(kind) ==
    /\ exporter[kind].pc = "exporting"
    /\ exporter' = [ exporter EXCEPT ![kind] =
                       Close([ @ EXCEPT !.pc = "raised",
                                        !.cause = "store_error" ]) ]
    /\ UNCHANGED << workerVars, s3_objects, now, adminVars, restoreVars,
                    relVars, call, tables, oauth_accounts, codec >>

\* ------------------------------------------- list_backups and the restore
\* the tokens of the keys in the order of their text: '/' is before the
\* digits of a timestamp, these before '_', and '_' before the words
TokenOrder ==
    << "/", "T0", "T1", "T2", "T3", "T4", "_", "backup.json.gz",
       "deletion.json.gz", "deletions", "incremental", "manual", "nodes",
       "prefix", "scheduled", "users" >>

TokenRank(tok) == CHOOSE i \in 1..Len(TokenOrder) : TokenOrder[i] = tok

\* key a is before key b in the order of their text
RECURSIVE KeyLess(_, _)
KeyLess(a, b) ==
    IF a = << >> THEN b # << >>
    ELSE IF b = << >> THEN FALSE
    ELSE IF Head(a) = Head(b) THEN KeyLess(Tail(a), Tail(b))
    ELSE TokenRank(Head(a)) < TokenRank(Head(b))

\* the keys in the order of their text, as list_objects_v2 returns them
RECURSIVE KeysInOrder(_)
KeysInOrder(keys) ==
    IF keys = {} THEN << >>
    ELSE LET k == CHOOSE k \in keys : \A o \in keys \ { k } : KeyLess(k, o)
         IN  << k >> \o KeysInOrder(keys \ { k })

\* paginate(Prefix=prefix, PaginationConfig={'MaxItems': limit}): the
\* first keys under the prefix, no more than limit of them
ListObjects(objects, prefix, limit) ==
    LET all == KeysInOrder({ k \in DOMAIN objects : StartsWith(k, prefix) })
    IN  SubSeq(all, 1, IF limit < Len(all) THEN limit ELSE Len(all))

\* an entry of the list list_backups builds
BackupEntry(objects, key) ==
    [ key |-> key,
      last_modified |-> Isoformat(objects[key].last_modified),
      backup_type |-> objects[key].backup_type ]

\* sorted(backups, key=lambda x: x['last_modified'], reverse=True): the
\* latest first, entries of one time in the order they had
RECURSIVE SortedByLastModified(_)
SortedByLastModified(backups) ==
    IF backups = << >> THEN << >>
    ELSE LET i == CHOOSE i \in 1..Len(backups) :
                     /\ \A j \in 1..Len(backups) :
                           backups[j].last_modified[2]
                               <= backups[i].last_modified[2]
                     /\ \A j \in 1..(i - 1) :
                           backups[j].last_modified[2]
                               < backups[i].last_modified[2]
         IN  << backups[i] >> \o
                 SortedByLastModified(SubSeq(backups, 1, i - 1) \o
                                      SubSeq(backups, i + 1, Len(backups)))

\* list_backups(limit=limit) with no backup_type
ListBackups(objects, limit) ==
    LET listed == ListObjects(objects, << "prefix", "/" >>, limit)
    IN  SortedByLastModified(
            [ i \in 1..Len(listed) |-> BackupEntry(objects, listed[i]) ])

\* list_backups(limit=1)
InitializeLimit == 1

\* _check_needs_initialization: False when the count is above 0; a
\* Neo4jError of the probe is passed over and True is returned
CheckNeedsInitialization(nodes, probe_error) ==
    IF probe_error THEN TRUE
    ELSE IF Cardinality(DOMAIN nodes) > 0 THEN FALSE
    ELSE TRUE

\* the results dict of restore_from_backup
CallResults(c) ==
    [ backup_key |-> c.backup_key,
      metadata |-> IF "metadata" \in DOMAIN c.backup_data
                   THEN c.backup_data.metadata ELSE << >>,
      neo4j |-> << >>, postgres |-> << >> ]

\* the restore calls of one behaviour are over or none is in progress
NoRestoreRunning ==
    /\ call.pc \in { "idle", "returned", "raised" }
    /\ restore.pc \in { "idle", "done", "failed" }
    /\ pg.pc \in { "idle", "done", "failed" }

\* restore_from_backup up to the await of download_backup
CallStart(c, backup_key, restore_neo4j, restore_postgres, clear_existing) ==
    [ c EXCEPT !.pc = "download", !.backup_key = backup_key,
               !.restore_neo4j = restore_neo4j,
               !.restore_postgres = restore_postgres,
               !.clear_existing = clear_existing ]

\* initialize_from_latest_backup at start-up, up to the download of the
\* restore it makes: None without a backup, None when the probe finds
\* data, else restore_from_backup of backups[0] without clearing
InitializeFromLatestBackup(probe_error) ==
    /\ call.via = "none"
    /\ NoRestoreRunning
    /\ restore_count < MaxRestores
    /\ LET backups == ListBackups(s3_objects, InitializeLimit)
           c == [ IdleCall EXCEPT !.via = "init",
                                  !.listed = backups,
                                  !.had_data = DOMAIN graph_nodes # {},
                                  !.nodes_before = graph_nodes,
                                  !.users_before = users ]
       IN  IF backups = << >>
           THEN /\ call' = [ c EXCEPT !.pc = "returned" ]
                /\ UNCHANGED restore_count
           ELSE IF ~CheckNeedsInitialization(graph_nodes, probe_error)
           THEN /\ call' = [ c EXCEPT !.pc = "returned",
                                      !.probe = "has_data" ]
                /\ UNCHANGED restore_count
           ELSE /\ call' = CallStart(
                               [ c EXCEPT !.probe = IF probe_error
                                                    THEN "error"
                                                    ELSE "empty" ],
                               backups[1].key, TRUE, TRUE, FALSE)
                /\ restore_count' = restore_count + 1
    /\ UNCHANGED << workerVars, s3_objects, now, adminVars, graph_nodes,
                    graph_edges, restore, relVars, exportVars, codec >>

\* restore_backup of the router: restore_from_backup up to the download
RestoreFromBackup(backup_key, restore_neo4j, restore_postgres, clear_existing) ==
    /\ NoRestoreRunning
    /\ restore_count < MaxRestores
    /\ restore_count' = restore_count + 1
    /\ call' = CallStart([ IdleCall EXCEPT !.via = "router" ], backup_key,
                         restore_neo4j, restore_postgres, clear_existing)
    /\ UNCHANGED << workerVars, s3_objects, now, adminVars, graph_nodes,
                    graph_edges, restore, relVars, exportVars, codec >>

\* a call that restores the relational data whatever restore_postgres is
AfterNeo4j_IgnoresFlag(c, outcome) ==
    IF "postgres" \in DOMAIN c.backup_data
    THEN [ call |-> [ c EXCEPT !.pc = "postgres" ],
           pg |-> PgStart(pg, users, c.backup_data.postgres.users,
                          c.clear_existing, outcome) ]
    ELSE [ call |-> [ c EXCEPT !.pc = "returned" ], pg |-> pg ]

\* the call after _restore_neo4j, or when it is skipped: _restore_postgres
\* up to its first query, or the return of the results
AfterNeo4j(c, outcome) ==
    IF c.restore_postgres /\ "postgres" \in DOMAIN c.backup_data
    THEN [ call |-> [ c EXCEPT !.pc = "postgres" ],
           pg |-> PgStart(pg, users, c.backup_data.postgres.users,
                          c.clear_existing, outcome) ]
    ELSE [ call |-> [ c EXCEPT !.pc = "returned" ], pg |-> pg ]

\* download_backup returned: _restore_neo4j up to its first query, or what
\* follows it
DownloadOk(outcome) ==
    /\ call.pc = "download"
    /\ call.backup_key \in DOMAIN s3_objects
    /\ LET data == DownloadBackup(s3_objects, call.backup_key)
           c == [ call EXCEPT !.backup_data = data ]
           d == [ c EXCEPT !.results = CallResults(c) ]
       IN  IF d.restore_neo4j /\ "neo4j" \in DOMAIN data
           THEN /\ restore' = Neo4jStart(data.neo4j, d.clear_existing)
                /\ call' = [ d EXCEPT !.pc = "neo4j" ]
                /\ UNCHANGED pg
           ELSE /\ call' = AfterNeo4j(d, outcome).call
                /\ pg' = AfterNeo4j(d, outcome).pg
                /\ UNCHANGED restore
    /\ UNCHANGED << workerVars, s3_objects, now, adminVars, graph_nodes,
                    graph_edges, restore_count, users, exportVars, codec >>

\* get_object raises, or the body does not decompress or parse: raised to
\* the caller
DownloadFail ==
    /\ call.pc = "download"
    /\ call' = [ call EXCEPT !.pc = "raised" ]
    /\ UNCHANGED << workerVars, s3_objects, now, adminVars, restoreVars,
                    relVars, exportVars, codec >>

\* _restore_neo4j returned: its result is kept and _restore_postgres
\* follows
Neo4jReturned(outcome) ==
    /\ call.pc = "neo4j"
    /\ restore.pc = "done"
    /\ LET c == [ call EXCEPT !.results.neo4j = restore.result ]
       IN  /\ call' = AfterNeo4j(c, outcome).call
           /\ pg' = AfterNeo4j(c, outcome).pg
    /\ UNCHANGED << workerVars, s3_objects, now, adminVars, restoreVars,
                    users, exportVars, codec >>

\* _restore_neo4j raised: restore_from_backup raises
Neo4jRaised ==
    /\ call.pc = "neo4j"
    /\ restore.pc = "failed"
    /\ call' = [ call EXCEPT !.pc = "raised" ]
    /\ UNCHANGED << workerVars, s3_objects, now, adminVars, restoreVars,
                    relVars, exportVars, codec >>

\* _restore_postgres returned: the results are returned
PgReturned ==
    /\ call.pc = "postgres"
    /\ pg.pc = "done"
    /\ call' = [ call EXCEPT !.pc = "returned",
                             !.results.postgres = pg.result ]
    /\ UNCHANGED << workerVars, s3_objects, now, adminVars, restoreVars,
                    relVars, exportVars, codec >>

\* _restore_postgres raised: restore_from_backup raises
PgRaised ==
    /\ call.pc = "postgres"
    /\ pg.pc = "failed"
    /\ call' = [ call EXCEPT !.pc = "raised" ]
    /\ UNCHANGED << workerVars, s3_objects, now, adminVars, restoreVars,
                    relVars, exportVars, codec >>

\* ------------------------------------------------------- specifications
\* the sync cycle: producers, the periodic task and force_sync
NextSync ==
    \/ \E in \in TrackInputs : TrackChange(in)
    \/ Start
    \/ \E t \in TaskIds :
          \/ SyncLoopEnter(t)
          \/ SyncTick(t)
          \/ SyncUploadOk(t)
          \/ SyncUploadFail(t)
    \/ \E f \in ForceIds :
          \/ ForceSync(f)
          \/ ForceUploadOk(f)
          \/ ForceUploadFail(f)

SpecSync == Init /\ [][NextSync]_vars

\* the life cycle: start, stop and both periodic tasks
LifeInputs == { << "create", << "episode" >>, "ep-1" >> }

NextLife ==
    \/ \E in \in LifeInputs : TrackChange(in)
    \/ Start
    \/ \E t \in TaskIds :
          \/ SyncLoopEnter(t)
          \/ SyncTick(t)
          \/ SyncUploadOk(t)
          \/ SyncUploadFail(t)
          \/ SyncCancelled(t)
          \/ FullLoopEnter(t)
          \/ FullTick(t)
          \/ FullExportOk(t)
          \/ FullFail(t)
          \/ FullUploadOk(t)
          \/ FullCancelled(t)
    \/ \E s \in StopIds :
          \/ StopBegin(s)
          \/ StopSyncAwaited(s)
          \/ StopFullAwaited(s)
          \/ StopFlushOk(s)
          \/ StopFlushFail(s)

SpecLife == Init /\ [][NextLife]_vars

\* the event loop resumes a coroutine whose await is over: a cancelled task
\* gets its CancelledError, stop() resumes when the task it awaits is done,
\* and put_object returns or raises
LifeFairness ==
    /\ \A t \in TaskIds : WF_vars(SyncCancelled(t)) /\ WF_vars(FullCancelled(t))
    /\ \A s \in StopIds :
          /\ WF_vars(StopSyncAwaited(s))
          /\ WF_vars(StopFullAwaited(s))
          /\ WF_vars(StopFlushOk(s) \/ StopFlushFail(s))

SpecLifeFair == SpecLife /\ LifeFairness

\* the sync cycle with the clock running
NextTimed ==
    \/ Tick
    \/ \E in \in LifeInputs : TrackChange(in)
    \/ Start
    \/ \E t \in TaskIds :
          \/ SyncLoopEnter(t)
          \/ SyncTick(t)
          \/ SyncUploadOk(t)
          \/ SyncUploadFail(t)
    \/ \E f \in ForceIds :
          \/ ForceSync(f)
          \/ ForceUploadOk(f)
          \/ ForceUploadFail(f)

SpecTimed == Init /\ [][NextTimed]_vars

\* the bucket under the router: backups are made and deletes are requested
NextAdmin ==
    \/ Tick
    \/ \E item_type \in ItemTypes : SaveDeletionBackupOk(item_type)
    \/ ManualBackupOk(FullData)
    \/ \E backup_key \in DeleteInputs : DeleteBackup(backup_key)

SpecAdmin == Init /\ [][NextAdmin]_vars

\* restores of the graph, one call after the other
NextRestore ==
    \/ \E snapshot \in Snapshots, clear_existing \in BOOLEAN :
          RestoreBegin(snapshot, clear_existing)
    \/ RestoreClearEdges
    \/ RestoreClearNodes
    \/ RestoreNode
    \/ RestoreEdge
    \/ RestoreFail

SpecRestore == Init /\ [][NextRestore]_vars

\* restores of the users table, one call after the other
NextRelational ==
    \/ \E users_list \in UserSnapshots, update_existing \in BOOLEAN,
          outcome \in PgOutcomes :
          PgBegin(users_list, update_existing, outcome)
    \/ PgUser
    \/ PgFail

SpecRelational == Init /\ [][NextRelational]_vars

\* backup_data of create_backup: the exports of a graph and of a users
\* table
ManualData(neo4j_data, users_list) ==
    [ created_by |-> "admin", neo4j |-> neo4j_data,
      postgres |-> [ users |-> users_list ] ]

\* the backups of the bucket: the graph of one node, with either list of
\* users
BackupPayloads ==
    { ManualData(s, us) : s \in { t \in Snapshots : Len(t.nodes) = 1 },
                          us \in UserSnapshots }

\* a process that starts over a graph that holds data or over an empty one
InitBootstrap ==
    /\ InitBase
    /\ \/ graph_nodes = ExistingNodes /\ graph_edges = ExistingEdges
       \/ graph_nodes = << >> /\ graph_edges = {}
    /\ users = << >>
    /\ tables = AllTables
    /\ oauth_accounts = << >>
    /\ codec = IdleCodec

\* backups are made as time passes, then the process starts
NextBootstrap ==
    \/ Tick
    \/ \E data \in BackupPayloads : ManualBackupOk(data)
    \/ \E probe_error \in BOOLEAN : InitializeFromLatestBackup(probe_error)
    \/ \E outcome \in PgOutcomes : DownloadOk(outcome)
    \/ DownloadFail
    \/ RestoreNode
    \/ RestoreEdge
    \/ RestoreFail
    \/ \E outcome \in PgOutcomes : Neo4jReturned(outcome)
    \/ Neo4jRaised
    \/ PgUser
    \/ PgFail
    \/ PgReturned
    \/ PgRaised

SpecBootstrap == InitBootstrap /\ [][NextBootstrap]_vars

\* backups are made and the router restores them
NextCall ==
    \/ \E data \in BackupPayloads : ManualBackupOk(data)
    \/ \E backup_key \in DOMAIN s3_objects,
          restore_neo4j, restore_postgres, clear_existing \in BOOLEAN :
          RestoreFromBackup(backup_key, restore_neo4j, restore_postgres,
                            clear_existing)
    \/ \E outcome \in PgOutcomes : DownloadOk(outcome)
    \/ DownloadFail
    \/ RestoreClearEdges
    \/ RestoreClearNodes
    \/ RestoreNode
    \/ RestoreEdge
    \/ RestoreFail
    \/ \E outcome \in PgOutcomes : Neo4jReturned(outcome)
    \/ Neo4jRaised
    \/ PgUser
    \/ PgFail
    \/ PgReturned
    \/ PgRaised

SpecCall == Init /\ [][NextCall]_vars

\* the users table of a database that is exported
SampleUsers ==
    ("u1" :> UserRow("a@x", TRUE, "meta_a", 0, 0)) @@
    ("u2" :> UserRow("b@x", FALSE, "meta_b", 0, 0))

\* the characters of the tokens
TokenChars ==
    << "a", "b", "c", "d", "e", "f", "g", "h", "i", "j", "k", "l" >>

\* the tokens of every length up to MaxTokenLen
Tokens == { SubSeq(TokenChars, 1, n) : n \in 0..MaxTokenLen }

\* a database of any schema; its OAuth row has a long token
InitExport ==
    /\ InitBase
    /\ graph_nodes = ExistingNodes
    /\ graph_edges = ExistingEdges
    /\ users = SampleUsers
    /\ tables \in SUBSET AllTables
    /\ oauth_accounts =
           IF "oauth_accounts" \in tables
           THEN << OAuthRow(SubSeq(TokenChars, 1, 9),
                            SubSeq(TokenChars, 2, 12)) >>
           ELSE << >>
    /\ codec = IdleCodec

\* both exporters, used again and again
NextExport ==
    \E kind \in ExporterKinds :
       \/ \E connected \in BOOLEAN : ExportAllData(kind, connected)
       \/ ExportStep(kind)
       \/ ExportRaise(kind)

SpecExport == InitExport /\ [][NextExport]_vars

\* a database of the whole schema whose OAuth row has tokens of any length
InitTokens ==
    /\ InitBase
    /\ graph_nodes = ExistingNodes
    /\ graph_edges = ExistingEdges
    /\ users = SampleUsers
    /\ tables = AllTables
    /\ \E access_token, refresh_token \in Tokens :
          oauth_accounts = << OAuthRow(access_token, refresh_token) >>
    /\ codec = IdleCodec

\* the relational exporter
NextTokens ==
    \/ \E connected \in BOOLEAN : ExportAllData("postgres", connected)
    \/ ExportStep("postgres")
    \/ ExportRaise("postgres")

SpecTokens == InitTokens /\ [][NextTokens]_vars

\* ------------------------------------------------------------ properties
IsPrefix(a, b) == Len(a) <= Len(b) /\ SubSeq(b, 1, Len(a)) = a

\* the uploads of _sync_changes that await put_object
Uploads == { inflight[c] : c \in Cyclers } \ { NoUpload }

Occurrences(x, seq) == Cardinality({ i \in 1..Len(seq) : seq[i] = x })

C2_NoEventDropped ==
    \A n \in 1..Len(log) :
        \/ n \in Seqs(change_queue) \cup Seqs(pending_changes) \cup delivered
        \/ \E u \in Uploads : n \in Seqs(u.events)      \* upload not yet over

\* the batch of u is the batch that failed before it followed by every event
\* tracked after that batch was built, in arrival order
ExtendsFailed(u) ==
    u.prev_failed # << >> =>
        u.events = u.prev_failed \o
            SubSeq(log, u.prev_failed[Len(u.prev_failed)].seq + 1, u.built_at)

GroupedCount(changes) ==
    Cardinality({ << k, i >> \in
        UNION { { k } \X (1..Len(changes[k].entities)) : k \in DOMAIN changes }
        : TRUE })

\* the batch of u holds the events tracked since the previous drain, each of
\* them once
CountsWindow(u) ==
    LET w == SubSeq(log, u.window_from + 1, u.built_at)
        g == u.data.changes
    IN  /\ u.data.change_count = Len(w)
        /\ GroupedCount(g) = Len(w)
        /\ \A i \in 1..Len(w) :
              /\ GroupKey(w[i]) \in DOMAIN g
              /\ Occurrences(GroupEntry(w[i]), g[GroupKey(w[i])].entities) =
                 Cardinality({ j \in 1..Len(w) :
                                 /\ GroupKey(w[j]) = GroupKey(w[i])
                                 /\ GroupEntry(w[j]) = GroupEntry(w[i]) })

\* C4: a cycle that starts with the pending batch empty (the earlier upload
\* succeeded) uploads a batch whose change_count and whose summed group sizes
\* equal the number of track_change calls since the previous tick, each of
\* those events being in the batch exactly once.
C4_BatchCountsCalls ==
    \A u \in Uploads \cup { last_ok } : u.fresh => CountsWindow(u)

C4_Witness ==
    /\ last_ok.fresh
    /\ last_ok.window_from > 0
    /\ last_ok.data.change_count = Len(log) - last_ok.window_from
    /\ hist[1] = "ok"

\* C10: force_sync returns True when its cycle uploaded or had nothing to
\* upload, and False when the upload of its cycle failed.
C10_ForceSyncReportsOutcome ==
    \A f \in ForceIds :
        forceCall[f].pc = "done" =>
            (forceCall[f].ret <=> forceCall[f].outcome \in { "ok", "empty" })

\* the upload the final sync of stop() awaits
StopFlush(s) == inflight[<< "stop", s >>]

\* the final sync of stop() runs at most once, and only when the tasks the
\* worker held at the call are done (no start() having replaced them)
C5_StopWaits ==
    \A s \in StopIds :
        /\ stopCall[s].flushes <= 1
        /\ stopCall[s].pc = "flush" => stopCall[s].flushes = 1
        /\ (stopCall[s].pc \in { "flush", "done" } /\ ~stopCall[s].restarted) =>
              /\ stopCall[s].held[1] # NoTask =>
                    syncLoop[stopCall[s].held[1]].pc = "done"
              /\ stopCall[s].held[2] # NoTask =>
                    fullLoop[stopCall[s].held[2]].pc = "done"

\* the steps of stop(): the final sync takes the pending list and the queue
\* whole, and a cancelled upload leaves the pending list as it is
C5_StopSteps ==
    /\ \A s \in StopIds :
          /\ (stopCall[s].pc # "flush" /\ stopCall'[s].pc = "flush") =>
                /\ StopFlush(s)'.events = pending_changes \o change_queue
                /\ pending_changes' = pending_changes \o change_queue
                /\ change_queue' = << >>
          /\ (stopCall[s].pc \notin { "flush", "done" }
                /\ stopCall'[s].pc = "done") =>
                pending_changes = << >> /\ change_queue = << >>
          /\ ( /\ stopCall[s].pc = "flush"
               /\ stopCall'[s].pc = "done"
               /\ stopCall'[s].outcome = "ok"
               /\ ~stopCall[s].tracked_in_flush ) =>
                pending_changes' = << >> /\ change_queue' = << >>
    /\ \A t \in TaskIds :
          (syncLoop[t].pc = "upload" /\ SyncCancelled(t)) =>
              pending_changes' = pending_changes

C6_FlushFailureSteps ==
    \A s \in StopIds :
        (stopCall[s].pc = "flush" /\ StopFlushFail(s)) =>
            /\ stopCall'[s].pc = "done"
            /\ ~stopCall'[s].raised
            /\ pending_changes' = pending_changes
            /\ ~StopFlush(s).stale =>
                   IsPrefix(StopFlush(s).events, pending_changes')

C7_TaskSurvivesFailure ==
    [][ \A t \in TaskIds :
          /\ (is_running /\ SyncUploadFail(t)) =>
                syncLoop'[t].pc = "sleep" /\ ~syncLoop'[t].must_cancel
          /\ (is_running /\ FullFail(t)) =>
                fullLoop'[t].pc = "sleep" /\ ~fullLoop'[t].must_cancel ]_vars

C7_Witness ==
    /\ is_running
    /\ hist[1] = "failed"
    /\ \E t \in TaskIds :
          \/ hist[2] = << "sync", t >> /\ syncLoop[t].pc = "sleep"
          \/ hist[2] = << "full", t >> /\ fullLoop[t].pc = "sleep"

\* C8: start() on a running worker creates no task and changes nothing of
\* the worker.
C8_StartIdempotent ==
    [][ (is_running /\ Start) =>
          UNCHANGED << enable_full_backup, last_full_backup_time, is_running,
                       sync_task, full_backup_task, syncLoop, fullLoop,
                       forceCall, stopCall, now, log, hist, cycleVars >> ]_vars

C8_Witness ==
    /\ noop_start
    /\ is_running
    /\ Created = { sync_task }
    /\ syncLoop[sync_task].pc = "sleep"

\* start() on a stopped worker: the flag, one new sync task and, when
\* enabled, one new full-backup task
C9_StartSteps ==
    (~is_running /\ Start) =>
        /\ is_running'
        /\ \E t \in TaskIds :
              /\ syncLoop[t].pc = "none"
              /\ syncLoop' = [ syncLoop EXCEPT ![t] = NewTask ]
              /\ sync_task' = t
              /\ IF enable_full_backup
                 THEN /\ fullLoop' = [ fullLoop EXCEPT ![t] = NewFull ]
                      /\ full_backup_task' = t
                 ELSE UNCHANGED << fullLoop, full_backup_task >>

\* with full backup disabled nothing of the full-backup loop exists
C9_NoFullBackupWhenDisabled ==
    ~enable_full_backup =>
        /\ last_full_backup_time = NoneTime
        /\ full_backup_task = NoTask
        /\ \A t \in TaskIds : fullLoop[t].pc = "none"
        /\ \A k \in DOMAIN s3_objects : s3_objects[k].backup_type # "scheduled"

\* C9: start() on a worker that is not running sets is_running and creates
\* one sync task and, exactly when full backup is enabled, one full-backup
\* task; with full backup disabled no scheduled backup is ever stored and
\* last_full_backup_time stays None.
C9_StartCreatesTasks ==
    /\ C9_NoFullBackupWhenDisabled
    /\ [][C9_NoFullBackupWhenDisabled' /\ C9_StartSteps]_vars

C9_Witness ==
    /\ ~enable_full_backup
    /\ is_running
    /\ sync_task # NoTask
    /\ syncLoop[sync_task].pc = "sleep"
    /\ DOMAIN s3_objects # {}

\* the events of u, as track_change made them, that fall in group k
GroupEvents(u, k) ==
    SelectSeq(log, LAMBDA c : c.seq \in Seqs(u.events) /\ GroupKey(c) = k)

InWindow(c, u) ==
    /\ u.data.start_time # << >> => c.timestamp >= u.data.start_time[2]
    /\ c.timestamp <= u.data.end_time[2]

\* C12: every event of an uploaded batch has its timestamp in the interval
\* (start_time, end_time] of the batch, start_time being last_sync_time when
\* the batch was built.
C12_EventsInWindow ==
    \A u \in Uploads \cup { last_ok } :
        \A i \in 1..Len(u.events) : InWindow(u.events[i], u)

\* a track_change call can run: nothing but the bound on the behaviour's
\* length keeps it from completing
C13_NeverBlocks ==
    \A in \in TrackInputs : Len(log) < MaxEvents => ENABLED TrackChange(in)

\* a track_change call puts its one new event at the back of the queue and
\* leaves the rest of the worker alone
C13_TrackSteps ==
    \A in \in TrackInputs :
        TrackChange(in) =>
            /\ Len(change_queue') = Len(change_queue) + 1
            /\ change_queue' =
                   Append(change_queue, DataChange(Len(log) + 1, now, in))
            /\ \A i \in 1..Len(change_queue) :
                   change_queue'[Len(change_queue')].seq # change_queue[i].seq
            /\ UNCHANGED << pending_changes, last_sync_time,
                            last_full_backup_time, total_changes_synced,
                            is_running, sync_task, full_backup_task, syncLoop,
                            fullLoop, forceCall, inflight, s3_objects,
                            enable_full_backup >>

\* C13: track_change never blocks (the queue has no capacity limit), and
\* each call, whatever else is in progress, adds exactly one event to the
\* queue and changes nothing else of the worker.
C13_TrackChangeEnqueuesOne ==
    C13_NeverBlocks /\ [][C13_NeverBlocks' /\ C13_TrackSteps]_vars

C13_Witness ==
    /\ Len(log) = 2
    /\ Len(change_queue) = 1
    /\ change_queue[1] = log[2]
    /\ pending_changes = << log[1] >>
    /\ Uploads # {}

\* a step of the full-backup task t
FullStep(t) ==
    \/ FullLoopEnter(t) \/ FullTick(t) \/ FullExportOk(t)
    \/ FullFail(t) \/ FullUploadOk(t) \/ FullCancelled(t)

\* C14: no step of a full-backup cycle, successful or not, changes the
\* queue, the pending batch, last_sync_time or total_changes_synced, nor the
\* sync task or what it can do next; last_full_backup_time changes only in
\* the step in which the upload of the scheduled backup returns.
C14_FullBackupFrame ==
    [][ /\ \A t \in TaskIds :
              FullStep(t) =>
                 /\ UNCHANGED << change_queue, pending_changes,
                                 last_sync_time, total_changes_synced,
                                 syncLoop, sync_task, is_running, inflight >>
                 /\ \A x \in TaskIds :
                       /\ (ENABLED SyncTick(x))' = ENABLED SyncTick(x)
                       /\ (ENABLED SyncUploadOk(x))' = ENABLED SyncUploadOk(x)
        /\ last_full_backup_time' # last_full_backup_time =>
              \E t \in TaskIds :
                 /\ fullLoop[t].pc = "upload"
                 /\ FullUploadOk(t)
                 /\ last_full_backup_time' = now
                 /\ BackupKey("scheduled", fullLoop[t].at)
                        \in DOMAIN s3_objects' ]_vars

C14_Witness ==
    /\ hist = << "failed", << "full", full_backup_task >> >>
    /\ last_full_backup_time # NoneTime
    /\ BackupKey("scheduled", 0) \in DOMAIN s3_objects
    /\ sync_task # NoTask
    /\ syncLoop[sync_task].pc = "upload"
    /\ pending_changes # << >>

\* the scenario: one track_change(CREATE, "episode", "ep-1") and no
\* force_sync
OnlyEp1 ==
    /\ Len(log) = 1
    /\ log[1].change_type = "create"
    /\ log[1].entity_type = << "episode" >>
    /\ log[1].entity_id = "ep-1"
    /\ \A f \in ForceIds : forceCall[f].pc = "idle"

\* `changes` with the one group episode_create holding the one entry ep-1
Ep1Changes ==
    << "episode", "_", "create" >> :>
        [ entities |->
            << [ id |-> "ep-1", timestamp |-> Isoformat(log[1].timestamp) ] >> ]

\* every upload of the scenario is the incremental backup of ep-1, and
\* nothing is stored before one of them has succeeded
C15_Ep1Uploads ==
    OnlyEp1 =>
        /\ \A u \in Uploads \cup ({ last_ok } \ { NoUpload }) :
              /\ u.backup_type = "incremental"
              /\ u.data.backup_type = "incremental"
              /\ u.data.change_count = 1
              /\ u.data.changes = Ep1Changes
        /\ \A k \in DOMAIN s3_objects :
              /\ s3_objects[k].backup_type = "incremental"
              /\ s3_objects[k].data.changes = Ep1Changes
              /\ delivered = { 1 }
        /\ Uploads # {} =>
              \E t \in TaskIds : /\ syncLoop[t].pc = "upload"
                                  /\ Uploads = { inflight[<< "sync", t >>] }

\* in the scenario an upload begins only at a sync tick, succeeds at most
\* once, and a tick after the success uploads nothing
C15_Ep1Steps ==
    (OnlyEp1 /\ OnlyEp1') =>
        /\ inflight' # inflight =>
              \E t \in TaskIds :
                  SyncTick(t) \/ SyncUploadOk(t) \/ SyncUploadFail(t)
        /\ s3_objects' # s3_objects =>
              /\ delivered = {}
              /\ \E t \in TaskIds : SyncUploadOk(t)
        /\ \A t \in TaskIds :
              (delivered = { 1 } /\ SyncTick(t)) =>
                  /\ UNCHANGED << inflight, s3_objects, pending_changes,
                                  last_sync_time, total_changes_synced >>
                  /\ syncLoop'[t].pc = "sleep"

\* C15: after a single track_change(CREATE, "episode", "ep-1") on a running
\* worker, the first sync tick uploads one incremental backup whose
\* `changes` is the group episode_create with the one entry of id "ep-1";
\* nothing is uploaded before that tick, and ticks after the upload has
\* succeeded upload nothing while nothing else is tracked.
C15_SingleEpisodeScenario ==
    C15_Ep1Uploads /\ [][C15_Ep1Uploads' /\ C15_Ep1Steps]_vars

C15_Witness ==
    /\ OnlyEp1
    /\ is_running
    /\ DOMAIN s3_objects = { BackupKey("incremental", 1) }
    /\ s3_objects[BackupKey("incremental", 1)].data.changes = Ep1Changes
    /\ log[1].timestamp = 0
    /\ total_changes_synced = 1
    /\ last_sync_time = 1
    /\ pending_changes = << >> /\ change_queue = << >>
    /\ hist = << "ok", << "sync", sync_task >> >>
    /\ syncLoop[sync_task].pc = "sleep"

\* C16: a stored blob is immutable: no step removes or alters an object the
\* bucket already holds (every upload is stored under a key of its own).
C16_BlobsImmutable ==
    [][ \A k \in DOMAIN s3_objects :
           /\ k \in DOMAIN s3_objects'
           /\ s3_objects'[k] = s3_objects[k] ]_vars

\* f'{self.prefix}/deletions/_'
DeletionPrefix == << "prefix", "/", "deletions", "/", "_" >>

NoDeletionsSegment(txt) ==
    \A i \in 1..Len(txt) :
        ~( /\ txt[i] = "deletions"
           /\ i > 1 /\ i + 2 <= Len(txt)
           /\ txt[i - 1] = "/" /\ txt[i + 1] = "/" /\ txt[i + 2] = "_" )

C17_ProtectedState ==
    /\ \A k \in deletion_keys :
          StartsWith(k, DeletionPrefix) /\ k \in DOMAIN s3_objects
    /\ admin_reply # NoReply =>
          /\ StartsWith(admin_reply.key, DeletionPrefix) =>
                admin_reply.status = "403" /\ ~admin_reply.passed
          /\ NoDeletionsSegment(admin_reply.key) =>
                /\ admin_reply.status \in { "200", "500" }
                /\ admin_reply.passed

C17_DeleteSteps ==
    \A backup_key \in DeleteInputs :
        (StartsWith(backup_key, DeletionPrefix) /\ DeleteBackup(backup_key)) =>
            UNCHANGED s3_objects

C18_SkippedEdgeCounted ==
    restore.pc = "done" =>
        /\ restore.result.edges_restored = restore.created
        /\ restore.skipped > 0 =>
              /\ "unresolved_edges" \in DOMAIN restore.result
              /\ restore.result.unresolved_edges = restore.skipped

\* the exported nodes the current restore has re-created
RestoredNodes == SubSeq(restore.snapshot.nodes, 1, restore.i - 1)

\* C19: the id-map of a restore has an entry for every exported node it has
\* re-created, naming the node this restore created for it (labels and
\* properties as exported), and every relationship the restore has created
\* runs from the node mapped to its exported source to the node mapped to
\* its exported target, with the exported type and properties; nothing of an
\* earlier restore's map is used.
C19_FreshIdMap ==
    restore.pc # "idle" =>
        /\ DOMAIN restore.node_id_mapping =
               { RestoredNodes[k].id : k \in 1..Len(RestoredNodes) }
        /\ \A k \in 1..Len(RestoredNodes) :
              LET node == RestoredNodes[k]
                  new_id == restore.node_id_mapping[node.id]
              IN  /\ new_id \in DOMAIN graph_nodes
                  /\ graph_nodes[new_id] =
                         GraphNode(node.labels, node.properties,
                                   restore_count, node.id)
        /\ \A e \in graph_edges :
              e.by = restore_count =>
                 LET edge == restore.snapshot.edges[e.j]
                 IN  /\ edge.source_id \in DOMAIN restore.node_id_mapping
                     /\ edge.target_id \in DOMAIN restore.node_id_mapping
                     /\ e.source = restore.node_id_mapping[edge.source_id]
                     /\ e.target = restore.node_id_mapping[edge.target_id]
                     /\ e.type = edge.type
                     /\ e.properties = edge.properties
                     /\ graph_nodes[e.source].by = restore_count
                     /\ graph_nodes[e.source].old = edge.source_id
                     /\ graph_nodes[e.target].by = restore_count
                     /\ graph_nodes[e.target].old = edge.target_id

C19_Witness ==
    /\ restore_count = 2
    /\ restore.pc = "done"
    /\ restore.created = 2
    /\ restore.node_id_mapping = (0 :> 1) @@ (1 :> 0)
    /\ \E e \in graph_edges :
          e.type = "LIKES" /\ e.source = 0 /\ e.target = 1

\* the place of a database operation in the order of a restore
OpRank(op) ==
    CASE op = "delete_edges" -> 1
      [] op = "delete_nodes" -> 2
      [] op = "create_node"  -> 3
      [] op = "create_edge"  -> 4

\* C20: a restore with clear_existing deletes the relationships, then the
\* nodes, then creates the snapshot's nodes, then its relationships: the
\* clear is over before the first node is created, and every node is created
\* before the first relationship is.
C20_RestoreOrder ==
    LET ops == restore.ops
    IN  /\ \A a, b \in 1..Len(ops) :
              a < b => OpRank(ops[a]) <= OpRank(ops[b])
        /\ restore.clear_existing =>
              /\ Len(ops) >= 1 => ops[1] = "delete_edges"
              /\ Len(ops) >= 2 => ops[2] = "delete_nodes"
              /\ Len(ops) >= 3 => ops[3] # "delete_nodes"
              /\ restore.pc \in { "nodes", "edges", "done" } =>
                    /\ Len(ops) >= 2
                    /\ \A id \in DOMAIN graph_nodes :
                          graph_nodes[id].by = restore_count
                    /\ \A e \in graph_edges : e.by = restore_count
        /\ (\E a \in 1..Len(ops) : ops[a] = "create_edge") =>
              restore.nodes_restored = Len(restore.snapshot.nodes)

C20_Witness ==
    /\ restore.clear_existing
    /\ restore.pc = "done"
    /\ restore.ops = << "delete_edges", "delete_nodes", "create_node",
                        "create_node", "create_edge", "create_edge" >>
    /\ Cardinality(graph_edges) = 2

\* the emails of the table, each held by one row
UniqueEmails ==
    \A a, b \in DOMAIN users : users[a].email = users[b].email => a = b

\* C23: restores of the same users without update into the empty table make
\* no duplicate: there is at most one row for an email at any time, and once
\* the first restore has returned the table stays what it was then, through
\* every later restore.
C23_NoDuplicateUsers ==
    pg.same =>
        /\ UniqueEmails
        /\ pg.calls >= 1 => users = pg.first_rows

C23_Witness ==
    /\ pg.same
    /\ pg.calls = 2
    /\ pg.pc = "done"
    /\ pg.users_restored = 0
    /\ Cardinality(DOMAIN users) = 2

\* the step of one turn of the user loop
UserStep == pg.pc = "users" /\ pg'.u = pg.u + 1

\* C25: a turn of the user loop leaves the table alone and counts nothing
\* when a row has the email and no update is asked for; with an update it
\* rewrites is_active and metadata of the rows that have the email, under
\* the ids they had; with no such row it writes the user under its own id,
\* a row that had this id taking the email, is_active and metadata of the
\* user; the last two are counted, and no other row changes.
C25_EmailThenId ==
    [][ UserStep =>
          LET user == pg.users[pg.u]
              match == { id \in DOMAIN users : users[id].email = user.email }
              written == IF match # {} THEN match ELSE { user.id }
              counted == pg'.users_restored - pg.users_restored
          IN  IF match # {} /\ ~pg.update_existing
              THEN users' = users /\ counted = 0
              ELSE /\ counted = 1
                   /\ DOMAIN users' = DOMAIN users \cup written
                   /\ \A id \in written :
                         /\ users'[id].email = user.email
                         /\ users'[id].is_active = user.is_active
                         /\ users'[id].metadata = user.metadata
                   /\ \A id \in DOMAIN users \ written :
                         users'[id] = users[id] ]_vars

\* the second backup restored with update over the first: the row u1 was
\* updated in place for a@x, then took the email c@x, and no row u3 exists
C25_Witness ==
    /\ pg.pc = "done"
    /\ pg.update_existing
    /\ pg.users_restored = 2
    /\ DOMAIN users = { "u1", "u2" }
    /\ users["u1"].email = "c@x"
    /\ users["u1"].metadata = "meta_d"

\* the nodes of the database that restore call `by` made for exported node n
CopiesBy(by, n) ==
    { id \in DOMAIN graph_nodes :
         /\ graph_nodes[id].by = by
         /\ graph_nodes[id].old = n.id
         /\ graph_nodes[id].labels = n.labels
         /\ graph_nodes[id].properties = n.properties }

\* the step of one turn of the node loop
NodeStep == restore.pc = "nodes" /\ restore'.i = restore.i + 1

\* C24: every turn of the node loop makes one more node, under an id no node
\* had, with the labels and properties of the exported node, and leaves the
\* nodes that were there as they were, a copy from an earlier restore of the
\* same backup included; so a restore without clear_existing that has
\* returned has made its own copy of every node of the backup.
C24_RestoreDuplicatesNodes ==
    [][ /\ NodeStep =>
            LET node == restore.snapshot.nodes[restore.i]
            IN  \E new_id \in DOMAIN graph_nodes' \ DOMAIN graph_nodes :
                   /\ DOMAIN graph_nodes' = DOMAIN graph_nodes \cup { new_id }
                   /\ graph_nodes'[new_id].labels = node.labels
                   /\ graph_nodes'[new_id].properties = node.properties
                   /\ \A id \in DOMAIN graph_nodes :
                         graph_nodes'[id] = graph_nodes[id]
        /\ (restore.pc = "done" /\ ~restore.clear_existing =>
               \A i \in 1..Len(restore.snapshot.nodes) :
                  Cardinality(CopiesBy(restore_count,
                                       restore.snapshot.nodes[i])) = 1)'
      ]_vars

\* two restores of the one-node backup without clear_existing: two copies
\* of its node, under two ids, beside the nodes that were there
C24_Witness ==
    /\ restore.pc = "done"
    /\ restore_count = 2
    /\ Len(restore.snapshot.nodes) = 1
    /\ Cardinality(CopiesBy(1, restore.snapshot.nodes[1])) = 1
    /\ Cardinality(CopiesBy(2, restore.snapshot.nodes[1])) = 1
    /\ Cardinality(DOMAIN graph_nodes) = 4

\* C21: once initialize_from_latest_backup has found the graph holding
\* data, it has returned None, no restore was begun, and the graph and the
\* users table are what they were when it was called.
C21_NoOpOnPopulatedStore ==
    call.via = "init" /\ call.had_data =>
        /\ call.pc = "returned"
        /\ restore.pc = "idle"
        /\ pg.pc = "idle"
        /\ graph_nodes = call.nodes_before
        /\ users = call.users_before

\* the step of initialize_from_latest_backup
InitializeStep == call.via = "none" /\ call'.via = "init"

\* C22: initialize_from_latest_backup called over an empty graph and a
\* bucket that holds a backup begins a restore without clear_existing of a
\* backup that no backup of the bucket is later than, by last-modified time.
C22_RestoresMostRecent ==
    [][ InitializeStep /\ DOMAIN graph_nodes = {} /\ DOMAIN s3_objects # {} =>
          /\ call'.pc = "download"
          /\ ~call'.clear_existing
          /\ \A k \in DOMAIN s3_objects :
                s3_objects[k].last_modified
                    <= s3_objects[call'.backup_key].last_modified ]_vars

\* the stages of the call that ran: each belongs to this call
RanNeo4j == call.restore_neo4j /\ "neo4j" \in DOMAIN call.backup_data

RanPostgres == call.restore_postgres /\ "postgres" \in DOMAIN call.backup_data

\* C26: restore_from_backup returns its results only when nothing failed:
\* the backup was downloaded and decoded and every stage that ran returned;
\* a stage that raised is never followed by the next stage or by a return.
\* The driver is open only while _restore_neo4j is at its queries and the
\* connection only while _restore_postgres is at its loop, so both are
\* closed when the call has returned and when it has raised.
C26_FailureRaisesAndCloses ==
    /\ call.pc = "returned" /\ call.via = "router" =>
          /\ "metadata" \in DOMAIN call.backup_data
          /\ RanNeo4j => restore.pc = "done"
          /\ RanPostgres => pg.pc = "done"
    /\ call.pc = "postgres" /\ RanNeo4j => restore.pc = "done"
    /\ restore.driver_open =>
          /\ call.pc = "neo4j"
          /\ restore.pc \in { "clear_edges", "clear_nodes", "nodes", "edges" }
    /\ pg.conn_open => call.pc = "postgres" /\ pg.pc = "users"

\* the graph was restored, then a query of the user loop raised after a
\* user was written: the call has raised and the connection is closed
C26_Witness ==
    /\ call.pc = "raised"
    /\ RanNeo4j
    /\ restore.pc = "done"
    /\ pg.pc = "failed"
    /\ pg.connected
    /\ ~pg.conn_open
    /\ ~restore.driver_open
    /\ pg.u = 2

\* C27: an exporter that is not inside export_all_data holds no driver and
\* no connection, whether the call returned or raised, and every object it
\* ever opened is closed; inside the call it holds the object it opened
\* last, which is not closed, so a later call works on a new one.
C27_ExporterReleasesConnection ==
    \A kind \in ExporterKinds :
       LET e == exporter[kind]
       IN  IF e.pc = "exporting"
           THEN /\ e.conn = e.opened
                /\ e.conn # NoConn
                /\ e.closed = 1..(e.opened - 1)
           ELSE /\ e.conn = NoConn
                /\ e.closed = 1..e.opened

\* a second export on the relational exporter after one that raised: the
\* second connection is open, the first is closed
C27_Witness ==
    /\ exporter["postgres"].pc = "exporting"
    /\ exporter["postgres"].exports = 2
    /\ exporter["postgres"].conn = 2
    /\ exporter["postgres"].closed = { 1 }
    /\ exporter["neo4j"].pc = "raised"
    /\ exporter["neo4j"].closed = { 1 }

\* the table a sub-export reads
TableOf(name) ==
    CASE name = "users" -> "users"
      [] name = "oauth" -> "oauth_accounts"
      [] OTHER -> "api_keys"

\* C28: a table that is missing never makes export_all_data raise, and an
\* export that returned has the empty sequence for every sub-export whose
\* table is missing.
C28_MissingTableTolerated ==
    LET e == exporter["postgres"]
    IN  /\ e.cause # "undefined_table"
        /\ e.pc = "returned" =>
              \A name \in { "users", "oauth", "api_keys" } :
                 TableOf(name) \notin tables => e.result[name] = << >>

\* the token is shown by its last MaskKeep characters after '***', and the
\* masked text does not hold the token
Masked(token, masked) ==
    token # << >> =>
        /\ ~masked.is_none
        /\ masked.text = << "*", "*", "*" >> \o
              SubSeq(token, IF Len(token) > MaskKeep
                            THEN Len(token) - MaskKeep + 1 ELSE 1,
                     Len(token))
        /\ ~Contains(token, masked.text)

\* C29: every OAuth record of an export holds, for the access token and for
\* the refresh token of its row, the masked text only: '***' and the last
\* MaskKeep characters, in which the token itself does not occur.
C29_TokenNeverExported ==
    LET e == exporter["postgres"]
    IN  "oauth" \in DOMAIN e.result =>
           \A i \in 1..Len(oauth_accounts) :
              /\ Masked(oauth_accounts[i].access_token,
                        e.result["oauth"][i].access_token_masked)
              /\ Masked(oauth_accounts[i].refresh_token,
                        e.result["oauth"][i].refresh_token_masked)

\* ------------------------------------------------- the snapshot codec
\* the payloads handed to upload_backup: with or without the export of
\* either database, with a time that is a datetime object or already its
\* ISO text, and with or without a metadata entry of an earlier upload
CodecTimes ==
    { << kind, t >> : kind \in { "datetime", "iso" }, t \in 0..MaxTime }

OldMetadata ==
    [ timestamp |-> Isoformat(0), backup_type |-> "earlier",
      description |-> "description", neo4j_node_count |-> 7,
      neo4j_edge_count |-> 7, postgres_record_count |-> 7 ]

CodecPayloads ==
    LET base == { [ created_by |-> "admin", timestamp |-> ts ] :
                     ts \in CodecTimes }
        withNeo4j == base \cup
            { [ created_by |-> b.created_by, timestamp |-> b.timestamp,
                neo4j |-> s ] : b \in base, s \in Snapshots }
        withPostgres == withNeo4j \cup
            { [ k \in DOMAIN d \cup { "postgres" } |->
                  IF k = "postgres" THEN [ users |-> us ] ELSE d[k] ] :
              d \in withNeo4j, us \in UserSnapshots }
    IN  withPostgres \cup
            { [ k \in DOMAIN d \cup { "metadata" } |->
                  IF k = "metadata" THEN OldMetadata ELSE d[k] ] :
              d \in withPostgres }

\* the backup_type arguments of upload_backup
CodecBackupTypes == { "manual", "scheduled" }

\* a caller that holds a payload and an empty bucket
InitCodec ==
    /\ InitBase
    /\ graph_nodes = ExistingNodes
    /\ graph_edges = ExistingEdges
    /\ users = << >>
    /\ tables = AllTables
    /\ oauth_accounts = << >>
    /\ \E data \in CodecPayloads :
          codec = [ IdleCodec EXCEPT !.data = data, !.argument = data ]

\* upload_backup(data, backup_type): the metadata is written into the
\* caller's dict, the dict is dumped, compressed and put; argument is
\* history, the dict as the caller built it
CodecUpload(backup_type) ==
    /\ codec.pc = "idle"
    /\ LET up == Upload(backup_type, codec.data, now, << >>)
       IN  /\ s3_objects' = PutObject(s3_objects, up)
           /\ codec' = [ codec EXCEPT
                  !.pc = "uploaded",
                  !.data = AttachMetadata(codec.data,
                               BackupMetadata(codec.data, backup_type, now)),
                  !.backup_type = backup_type,
                  !.key = up.key,
                  !.timestamp = now ]
    /\ UNCHANGED << workerVars, now, adminVars, restoreVars, relVars, call,
                    exportVars >>

\* download_backup(key) of the key that upload_backup returned
CodecDownload ==
    /\ codec.pc = "uploaded"
    /\ codec' = [ codec EXCEPT
           !.pc = "downloaded",
           !.downloaded = DownloadBackup(s3_objects, codec.key) ]
    /\ UNCHANGED << workerVars, now, s3_objects, adminVars, restoreVars,
                    relVars, call, exportVars >>

NextCodec ==
    \/ Tick
    \/ \E backup_type \in CodecBackupTypes : CodecUpload(backup_type)
    \/ CodecDownload

SpecCodec == InitCodec /\ [][NextCodec]_vars

\* a payload json can carry as it is: its time is text, not a datetime
\* object
WellFormed(payload) ==
    "timestamp" \in DOMAIN payload => payload.timestamp[1] # "datetime"

\* the payload with the metadata block of this upload in place of any
\* metadata entry it had
WithUploadMetadata(payload, backup_type, t) ==
    [ k \in DOMAIN payload \cup { "metadata" } |->
        IF k = "metadata"
        THEN [ timestamp |-> Isoformat(t), backup_type |-> backup_type,
               description |-> "description",
               neo4j_node_count |-> CountOf(payload, "neo4j", "nodes"),
               neo4j_edge_count |-> CountOf(payload, "neo4j", "edges"),
               postgres_record_count |->
                   CountOf(payload, "postgres", "users") ]
        ELSE payload[k] ]

MaxStatNodes == 3   \* the graphs that are exported hold 0..MaxStatNodes nodes

\* the label lists of the nodes of a graph: none, one label, two labels
LabelLists ==
    { << >>, << "Entity" >>, << "Episodic" >>, << "unlabeled" >>,
      << "Episodic", "Entity" >> }

\* the relationships a graph may hold between its nodes
StatEdges ==
    { GraphEdge(0, 1, "KNOWS", "props_z", 0, 1),
      GraphEdge(1, 2, "KNOWS", "props_z", 0, 2),
      GraphEdge(2, 0, "LIKES", "props_z", 0, 3) }

\* a graph of any content: nodes 0..n-1 with any labels, and any of the
\* relationships between them
InitStats ==
    /\ InitBase
    /\ \E n \in 0..MaxStatNodes :
          /\ \E labels \in [ 0..(n - 1) -> LabelLists ] :
                graph_nodes =
                    [ i \in 0..(n - 1) |->
                        GraphNode(labels[i], "props_x", 0, NoneId) ]
          /\ graph_edges \in
                 SUBSET { e \in StatEdges : e.source < n /\ e.target < n }
    /\ users = << >>
    /\ tables = AllTables
    /\ oauth_accounts = << >>
    /\ codec = IdleCodec

\* the graph exporter
NextStats ==
    \/ \E connected \in BOOLEAN : ExportAllData("neo4j", connected)
    \/ ExportStep("neo4j")
    \/ ExportRaise("neo4j")

SpecStats == InitStats /\ [][NextStats]_vars

\* the labels of a list, as a set
LabelSet(labels) == { labels[i] : i \in 1..Len(labels) }

\* the nodes of the graph that carry exactly the labels of the list
Carrying(labels) ==
    { i \in DOMAIN graph_nodes :
        LabelSet(graph_nodes[i].labels) = LabelSet(labels) }

\* C31: the statistics of a returned graph export agree with the store:
\* total_nodes is the number of nodes, total_edges the number of
\* relationships, and node_counts_by_label holds, for the label-set of every
\* node, the number of nodes that carry that label-set.
C31_StatisticsAgree ==
    LET e == exporter["neo4j"]
    IN  e.pc = "returned" =>
           LET stats == e.result["statistics"][1]
           IN  /\ stats.total_nodes = Cardinality(DOMAIN graph_nodes)
               /\ stats.total_edges = Cardinality(graph_edges)
               /\ \A i \in DOMAIN graph_nodes :
                     stats.node_counts_by_label[
                         LabelKey(graph_nodes[i].labels)] =
                             Cardinality(Carrying(graph_nodes[i].labels))

\* ------------------------------------------------------------ get_status
\* sync_interval and full_backup_interval, the defaults of the constructor
SyncInterval == 60
FullBackupInterval == 3600

\* a status that reports the pending list as the queue and the queue as the
\* pending list
GetStatusResult_Swapped ==
    [ is_running |-> is_running,
      last_sync_time |-> IsoOrNone(last_sync_time),
      last_full_backup_time |-> IsoOrNone(last_full_backup_time),
      pending_changes |-> Len(change_queue),
      queue_size |-> Len(pending_changes),
      total_changes_synced |-> total_changes_synced,
      sync_interval |-> SyncInterval,
      full_backup_enabled |-> enable_full_backup,
      full_backup_interval |-> FullBackupInterval ]

\* the dict get_status returns
GetStatusResult ==
    [ is_running |-> is_running,
      last_sync_time |-> IsoOrNone(last_sync_time),
      last_full_backup_time |-> IsoOrNone(last_full_backup_time),
      pending_changes |-> Len(pending_changes),
      queue_size |-> Len(change_queue),
      total_changes_synced |-> total_changes_synced,
      sync_interval |-> SyncInterval,
      full_backup_enabled |-> enable_full_backup,
      full_backup_interval |-> FullBackupInterval ]

\* get_backup_status of the router: get_status() is synchronous and assigns
\* nothing; its dict is the answer
GetStatus ==
    /\ admin_reply' = GetStatusResult
    /\ UNCHANGED << workerVars, s3_objects, now, deletion_keys, restoreVars,
                    moreVars >>

\* the sync cycle, its producers and the status requests
NextStatus ==
    \/ \E in \in LifeInputs : TrackChange(in)
    \/ Start
    \/ \E t \in TaskIds :
          \/ SyncLoopEnter(t)
          \/ SyncTick(t)
          \/ SyncUploadOk(t)
          \/ SyncUploadFail(t)
    \/ \E f \in ForceIds :
          \/ ForceSync(f)
          \/ ForceUploadOk(f)
          \/ ForceUploadFail(f)
    \/ GetStatus

SpecStatus == Init /\ [][NextStatus]_vars

\* C32: a get_status call changes nothing of the worker and its answer
\* holds the values of that moment: the running flag, the length of the
\* pending batch, the number of queued events, the total-synced counter,
\* the two times (as text, or none) and the configured intervals.
C32_GetStatusReadOnly ==
    [][ admin_reply' # admin_reply =>
          /\ UNCHANGED << workerVars, s3_objects, now >>
          /\ admin_reply'.is_running = is_running
          /\ admin_reply'.pending_changes = Len(pending_changes)
          /\ admin_reply'.queue_size = Len(change_queue)
          /\ admin_reply'.total_changes_synced = total_changes_synced
          /\ admin_reply'.last_sync_time =
                 (IF last_sync_time = NoneTime THEN << >>
                  ELSE << "iso", last_sync_time >>)
          /\ admin_reply'.last_full_backup_time =
                 (IF last_full_backup_time = NoneTime THEN << >>
                  ELSE << "iso", last_full_backup_time >>)
          /\ admin_reply'.sync_interval = SyncInterval
          /\ admin_reply'.full_backup_interval = FullBackupInterval
          /\ admin_reply'.full_backup_enabled = enable_full_backup ]_vars

\* a status taken while the worker runs with one event pending, one queued
\* and an upload in flight
C32_Witness ==
    /\ admin_reply # NoReply
    /\ admin_reply.is_running
    /\ admin_reply.pending_changes = 1
    /\ admin_reply.queue_size = 1
    /\ Len(pending_changes) = 1
    /\ Len(change_queue) = 1

\* the cycle of c ends in this step with its upload stored
EndsOk(c) ==
    /\ inflight[c] # NoUpload
    /\ inflight'[c] = NoUpload
    /\ last_ok' = inflight[c]
    /\ s3_objects' = PutObject(s3_objects, inflight[c])

\* the events tracked after the batch of upload u was built
TrackedSince(u) == (u.built_at + 1)..Len(log)

\* C33: an event enqueued while the upload of a cycle is in flight is not in
\* that cycle's batch, is still queued or pending after that cycle has
\* cleared the pending batch, and a cycle that begins takes every queued
\* event into its batch.
C33_LateEventsKept ==
    [][ \A c \in Cyclers :
          /\ EndsOk(c) =>
                \A n \in TrackedSince(inflight[c]) :
                   /\ n \notin Seqs(inflight[c].events)
                   /\ n \in Seqs(change_queue) \cup Seqs(pending_changes) =>
                         n \in Seqs(change_queue') \cup Seqs(pending_changes')
          /\ (inflight[c] = NoUpload /\ inflight'[c] # NoUpload) =>
                Seqs(change_queue) \subseteq Seqs(inflight'[c].events) ]_vars

\* a cycle begins in this step and finds nothing queued and nothing pending
EmptyCycle ==
    /\ ~CycleHasWork
    /\ \/ \E t \in TaskIds : SyncTick(t)
       \/ \E f \in ForceIds : ForceSync(f)

\* C34: a cycle whose upload succeeded leaves the pending batch empty, has
\* raised total_changes_synced by the number of events of the batch it
\* uploaded and has set last_sync_time no earlier than it was; the counter
\* and last_sync_time change in no other step, and a cycle that finds
\* nothing queued or pending uploads nothing and changes neither.
C34_SuccessAccounting ==
    [][ /\ \A c \in Cyclers :
              EndsOk(c) =>
                 /\ pending_changes' = << >>
                 /\ total_changes_synced' =
                        total_changes_synced + Len(inflight[c].events)
                 /\ last_sync_time' >= last_sync_time
        /\ (total_changes_synced' # total_changes_synced
               \/ last_sync_time' # last_sync_time) =>
              \E c \in Cyclers : EndsOk(c)
        /\ EmptyCycle =>
              UNCHANGED << s3_objects, inflight, total_changes_synced,
                           last_sync_time, pending_changes >> ]_vars

\* a worker constructed with enable_full_backup=False
InitWorker == Init /\ ~enable_full_backup

\* the worker without the full-backup task: producers, the sync task,
\* force_sync and stop
NextWorker ==
    \/ \E in \in LifeInputs : TrackChange(in)
    \/ Start
    \/ \E t \in TaskIds :
          \/ SyncLoopEnter(t)
          \/ SyncTick(t)
          \/ SyncUploadOk(t)
          \/ SyncUploadFail(t)
          \/ SyncCancelled(t)
    \/ \E f \in ForceIds :
          \/ ForceSync(f)
          \/ ForceUploadOk(f)
          \/ ForceUploadFail(f)
    \/ \E s \in StopIds :
          \/ StopBegin(s)
          \/ StopSyncAwaited(s)
          \/ StopFlushOk(s)
          \/ StopFlushFail(s)

SpecWorker == InitWorker /\ [][NextWorker]_vars

\* C35: conservation of events: in every reachable state the number of
\* completed track_change calls equals total_changes_synced plus the length
\* of the pending batch plus the number of queued events.
C35_Conservation ==
    Len(log) = total_changes_synced + Len(pending_changes) + Len(change_queue)

\* one event counted as synced and one kept pending, after a force_sync and
\* a stop() have both ended
C35_Witness ==
    /\ Len(log) = 2
    /\ total_changes_synced = 1
    /\ Len(pending_changes) = 1
    /\ \E f \in ForceIds : forceCall[f].pc = "done"
    /\ \E s \in StopIds : stopCall[s].pc = "done"

\* the sync task is resumed when its sleep or its await is over, its
\* uploads succeed in the end, and a force_sync call gets the outcome of
\* its upload
SyncFairness ==
    /\ \A t \in TaskIds :
          /\ WF_vars(SyncLoopEnter(t))
          /\ WF_vars(SyncTick(t))
          /\ SF_vars(SyncUploadOk(t))
    /\ \A f \in ForceIds : WF_vars(ForceUploadOk(f) \/ ForceUploadFail(f))

SpecSyncFair == SpecSync /\ SyncFairness

\* C36: while the worker is running, every event made by track_change is in
\* the end in a batch that was stored, and in neither the queue nor the
\* pending batch.
C36_EventuallyUploaded ==
    \A n \in 1..MaxEvents :
        (is_running /\ Len(log) >= n) ~>
            (/\ n \in delivered
             /\ n \notin Seqs(change_queue) \cup Seqs(pending_changes))

\* task t of the table is active: created and neither ended nor asked to
\* cancel
Active(tab, t) ==
    /\ tab[t].pc \notin { "none", "done" }
    /\ ~tab[t].must_cancel

\* a worker that reports running holds an active sync task and, when full
\* backup is enabled, an active full-backup task
C37_RunningHasTasks ==
    is_running =>
        /\ sync_task # NoTask
        /\ Active(syncLoop, sync_task)
        /\ enable_full_backup =>
              /\ full_backup_task # NoTask
              /\ Active(fullLoop, full_backup_task)

\* no two sync tasks and no two full-backup tasks are active together
C37_AtMostOne ==
    /\ Cardinality({ t \in TaskIds : Active(syncLoop, t) }) <= 1
    /\ Cardinality({ t \in TaskIds : Active(fullLoop, t) }) <= 1

\* when a stop() call returns, every periodic task has ended
C37_StopReturns ==
    \A s \in StopIds :
        (stopCall[s].pc # "done" /\ stopCall'[s].pc = "done") =>
            \A t \in TaskIds :
                /\ syncLoop'[t].pc \in { "none", "done" }
                /\ fullLoop'[t].pc \in { "none", "done" }

\* C37: under any interleaving of start() and stop(), a worker that reports
\* running holds an active sync task and, when enabled, an active
\* full-backup task; at most one task of each kind is active; and when a
\* stop() returns no periodic task is left.
C37_StartStopConsistent ==
    /\ C37_RunningHasTasks /\ C37_AtMostOne
    /\ [][C37_RunningHasTasks' /\ C37_AtMostOne' /\ C37_StopReturns]_vars

\* ------------------------------------------- what a restore may change
\* backups with both sections, with the graph only, with the users only
FramePayloads ==
    LET s == CHOOSE t \in Snapshots : Len(t.nodes) = 1
        us == CHOOSE u \in UserSnapshots : u[1].id = "u1"
    IN  { ManualData(s, us),
          [ created_by |-> "admin", neo4j |-> s ],
          [ created_by |-> "admin", postgres |-> [ users |-> us ] ] }

\* the one event of the incremental backup of the bucket
FrameChange == DataChange(1, 0, << "create", << "episode" >>, "ep-1" >>)

\* a process that starts over a bucket that holds an incremental backup, a
\* deletion backup and a manual backup
InitFrame ==
    /\ InitNoBucket
    /\ graph_nodes = ExistingNodes
    /\ graph_edges = ExistingEdges
    /\ users = << >>
    /\ tables = AllTables
    /\ oauth_accounts = << >>
    /\ codec = IdleCodec
    /\ \E data \in FramePayloads :
          s3_objects =
              PutObject(
                  PutObject(
                      DeletionKey("nodes", 0) :> DeletionObject("nodes", 0),
                      Upload("incremental",
                             IncrementalData(<< FrameChange >>, NoneTime, 0),
                             0, << FrameChange >>)),
                  Upload("manual", data, 0, << >>))

\* the router restores any backup of the bucket
NextFrame ==
    \/ \E backup_key \in DOMAIN s3_objects,
          restore_neo4j, restore_postgres, clear_existing \in BOOLEAN :
          RestoreFromBackup(backup_key, restore_neo4j, restore_postgres,
                            clear_existing)
    \/ \E outcome \in PgOutcomes : DownloadOk(outcome)
    \/ DownloadFail
    \/ RestoreClearEdges
    \/ RestoreClearNodes
    \/ RestoreNode
    \/ RestoreEdge
    \/ RestoreFail
    \/ \E outcome \in PgOutcomes : Neo4jReturned(outcome)
    \/ Neo4jRaised
    \/ PgUser
    \/ PgFail
    \/ PgReturned
    \/ PgRaised

SpecFrame == InitFrame /\ [][NextFrame]_vars

\* C38: a step changes the graph only within a restore call that has
\* restore_neo4j set and whose backup holds a 'neo4j' section, and changes
\* the users table only within a call that has restore_postgres set and
\* whose backup holds a 'postgres' section (so clear_existing without
\* restore_neo4j deletes nothing of the graph, and an incremental or a
\* deletion backup changes neither store).
C38_RestoreFrame ==
    [][ /\ (graph_nodes' # graph_nodes \/ graph_edges' # graph_edges) =>
              /\ call.pc = "neo4j"
              /\ call.restore_neo4j
              /\ "neo4j" \in DOMAIN call.backup_data
        /\ users' # users =>
              /\ call.pc = "postgres"
              /\ call.restore_postgres
              /\ "postgres" \in DOMAIN call.backup_data ]_vars

\* a call with clear_existing and without restore_neo4j has returned from
\* a backup with both sections: the users are restored and the graph is
\* what it was
C38_Witness ==
    /\ call.pc = "returned"
    /\ call.clear_existing
    /\ ~call.restore_neo4j
    /\ call.restore_postgres
    /\ DOMAIN call.backup_data = { "created_by", "neo4j", "postgres", "metadata" }
    /\ graph_nodes = ExistingNodes
    /\ graph_edges = ExistingEdges
    /\ users # << >>

====
